---- MODULE Spec2Model ----
(***************************************************************************)
(* Motion orchestrator of the pianist robot: the three hardware routines   *)
(* run_startup_test, run_test (four-finger note test) and                  *)
(* run_continuous_practice, over the XArmDriver and InspireHandDriver.     *)
(* One run of one routine is one behaviour: every driver call is a step,   *)
(* every driver call may be rejected by the hardware, and a                *)
(* KeyboardInterrupt may arrive before any step.                           *)
(***************************************************************************)
EXTENDS Integers, Sequences, FiniteSets, TLC

(* ------------------------------ bounds -------------------------------- *)
\* largest loop count (--loops / --max-loops) drawn as an input
MaxLoops == 2
\* iterations after which an unbounded practice loop (max_loops <= 0) is cut
MaxIter == 2
\* hardware rejections the environment may produce in one run
MaxRejects == 2
\* KeyboardInterrupts the environment may deliver in one run
MaxInterrupts == 2
\* most comma-separated parts of a --finger-indices text drawn as an input
MaxParts == 5
\* most comma-separated parts of a joint pose text drawn as an input
MaxPoseParts == 7
\* most driver calls made on a pair of drivers exercised directly
MaxCalls == 2
\* most timed sweep moves of one calibration run that take the long duration
MaxSlow == 1
\* most elements of a center_pose_deg list read from the calibration report
MaxCenterLen == 7

(* ------------------------- program constants -------------------------- *)
MOTOR_COUNT == 6
NO_ACTION_VALUE == 65535
HAND_OPEN == 1000
HAND_CLOSE_REF == 120
DOWN_FRACTION_PCT == 40
JOINT_COUNT == 6

DEFAULT_HOME_JOINTS_DEG == <<0, 0, 0, 0, 90, -45>>
DEFAULT_CENTER_JOINTS_DEG == <<0, -17, -28, 0, 75, -45>>
DEFAULT_ARM_TEST_JOINTS_DEG == <<0, 0, -15, 0, 110, -45>>
DEFAULT_FINGER_INDICES == <<3, 2, 1, 0>>

\* play_center_calibration.py: the candidate catalog, in the order of the dict
CANDIDATE_NAMES == <<"center_a", "center_b", "center_c", "center_d">>
CANDIDATE_CENTERS ==
  << <<0, -20, -35, 0, 100, -45>>,
     <<0, -17, -28, 0, 75, -45>>,
     <<0, -26, -44, 0, 106, -45>>,
     <<0, -18, -52, 0, 110, -45>> >>
\* the (lower, upper) limit of each joint, in tenths of a degree (3.5 is 35)
JOINT_LIMITS_DEG ==
  << <<-3600, 3600>>, <<-1320, 1320>>, <<-2420, 35>>,
     <<-3600, 3600>>, <<-1240, 1240>>, <<-3600, 3600>> >>
\* the float fields of a CandidateResult are kept in thousandths
SCALE == 1000
\* 1.0 / max(x, 1e-6) at x = 0, in thousandths
RAW_CEILING == 1000000000

Routines == {"startup", "note", "practice"}
\* smallest loop count drawn: --loops / --max-loops take any integer
MinLoops == -1
\* finger orders handed to the routines
FingerSets == {DEFAULT_FINGER_INDICES, <<0, 1, 2, 3>>}

(* --------------------------- pure functions --------------------------- *)
Max2(a, b) == IF a >= b THEN a ELSE b
Min2(a, b) == IF a <= b THEN a ELSE b

\* rounding towards minus infinity
Mut_Round_Floor(n, d) == n \div d

\* Python round(): nearest integer, ties to even, of n / d (d > 0)
RoundHalfEven(n, d) ==
  LET q == n \div d
      r == n % d
  IN  IF 2 * r < d THEN q
      ELSE IF 2 * r > d THEN q + 1
      ELSE IF q % 2 = 0 THEN q ELSE q + 1

\* the fraction measured from the close reference towards the open value
Mut_ComputeStrike_FromClose(open, close, pct) ==
  LET clamped == Max2(0, Min2(100, pct))
  IN  RoundHalfEven(100 * close + (open - close) * clamped, 100)

\* _compute_strike_value, the down fraction given in hundredths
ComputeStrikeValue(open, close, pct) ==
  LET clamped == Max2(0, Min2(100, pct))
      \* value = open + (close - open) * down_fraction, in hundredths
      value100 == 100 * open + (close - open) * clamped
  IN  RoundHalfEven(value100, 100)

\* the 6-register vector written by set_all_motors
AllRegs(v) == [i \in 1..MOTOR_COUNT |-> v % 65536]
\* the 6-register vector written by move_single_motor
SingleRegs(idx, v) ==
  [i \in 1..MOTOR_COUNT |-> IF i = idx + 1 THEN v % 65536 ELSE NO_ACTION_VALUE]

\* the hand after a register vector was written: 65535 leaves a motor alone
ApplyRegs(m, regs) ==
  [i \in 1..MOTOR_COUNT |-> IF regs[i] = NO_ACTION_VALUE THEN m[i] ELSE regs[i]]

(* ----------------------- _parse_finger_indices ------------------------ *)
\* A --finger-indices text is modelled by its parts, the strings between its
\* commas (text.split(",") never gives an empty list).
PartAlphabet == {"", "0", "1", " 2 ", "3", "5", "6", "-1", "x"}

\* p.strip(): the part without its surrounding blanks
Strip(p) ==
  CASE p = " 2 " -> "2"
    [] p = " 90 " -> "90"
    [] OTHER -> p

\* int(p): the strings int() converts, with their values; any other raises
IntLiterals ==
  ("0" :> 0) @@ ("1" :> 1) @@ ("2" :> 2) @@ ("3" :> 3) @@ ("5" :> 5)
  @@ ("6" :> 6) @@ ("-1" :> -1)

\* parts = [p.strip() for p in text.split(",") if p.strip()]
StrippedParts(text) ==
  SelectSeq([i \in 1..Len(text) |-> Strip(text[i])], LAMBDA p : p # "")

\* values = [int(p) for p in parts], where every part converts
IntValues(parts) == [i \in 1..Len(parts) |-> IntLiterals[parts[i]]]

\* any(v < 0 or v > 5 for v in values)
OutOfRange(values) == \E i \in 1..Len(values) : values[i] < 0 \/ values[i] > 5

\* _parse_finger_indices raises ValueError: part count, int(), range
ParseFingerIndicesRaises(text) ==
  LET parts == StrippedParts(text)
  IN  \/ Len(parts) # 4
      \/ \E i \in 1..Len(parts) : parts[i] \notin DOMAIN IntLiterals
      \/ OutOfRange(IntValues(parts))

\* the list _parse_finger_indices returns when it does not raise
ParseFingerIndices(text) == IntValues(StrippedParts(text))

\* the texts behind the finger orders handed to the routines
FingerTexts == {<<"3", "2", "1", "0">>, <<"0", "1", " 2 ", "3">>}

(* ------------------------ _parse_joint_targets ------------------------- *)
\* the parts a joint pose text may hold between its commas
PoseAlphabet == {"", "0", " 90 ", "x"}

\* float(p): the strings float() converts, with their values (degrees); any
\* other raises
FloatLiterals ==
  ("0" :> 0) @@ ("90" :> 90) @@ ("0.0" :> 0) @@ ("90.0" :> 90)
  @@ ("-45.0" :> -45) @@ ("-17.0" :> -17) @@ ("-28.0" :> -28) @@ ("75.0" :> 75)
  @@ ("-15.0" :> -15) @@ ("110.0" :> 110)

\* values = [float(p) for p in parts], where every part converts
FloatValues(parts) == [i \in 1..Len(parts) |-> FloatLiterals[parts[i]]]

\* _parse_joint_targets raises ValueError: part count, float()
ParseJointTargetsRaises(text) ==
  LET parts == StrippedParts(text)
  IN  \/ Len(parts) # 6
      \/ \E i \in 1..Len(parts) : parts[i] \notin DOMAIN FloatLiterals

\* the list _parse_joint_targets returns when it does not raise
ParseJointTargets(text) == FloatValues(StrippedParts(text))

\* default=",".join(str(v) for v in <default pose>)
HomeDefaultText == <<"0.0", "0.0", "0.0", "0.0", "90.0", "-45.0">>
CenterDefaultText == <<"0.0", "-17.0", "-28.0", "0.0", "75.0", "-45.0">>
TestDefaultText == <<"0.0", "0.0", "-15.0", "0.0", "110.0", "-45.0">>

(* ---------------------- _load_center_from_report ----------------------- *)
\* play_center_calibration_results.json as _load_center_from_report meets it:
\* shape says how far the reads get, center is report["best_candidate"]
\* ["center_pose_deg"] when that is a list, its elements JSON values
JsonNumber(v) == [kind |-> "number", val |-> v]
JsonNumericText(v) == [kind |-> "numeric_text", val |-> v]
JsonBool(v) == [kind |-> "bool", val |-> v]
JsonText == [kind |-> "text", val |-> 0]
JsonNull == [kind |-> "null", val |-> 0]
JsonList == [kind |-> "list", val |-> 0]

ReportFile(shape, center) == [shape |-> shape, center |-> center]
NoFile == ReportFile("missing", <<>>)

\* float(v) raises: ValueError for a text that is no number, TypeError for
\* None and for a list; a number, a text holding a number and a bool convert
FloatRaises(e) ==
  CASE e.kind = "text" -> "ValueError"
    [] e.kind \in {"null", "list"} -> "TypeError"
    [] OTHER -> "none"

FloatOf(e) == e.val

\* the exception the try block of _load_center_from_report raises, "none"
\* when it raises none: read_text on an unreadable file, json.loads on text
\* that is no JSON, .get on a report or a best_candidate that is no object,
\* float(v) on an element of a six element list
LoadRaises(file) ==
  CASE file.shape = "unreadable" -> "OSError"
    [] file.shape = "not_json" -> "JSONDecodeError"
    [] file.shape \in {"not_object", "best_null", "best_not_object"} -> "AttributeError"
    [] file.shape = "center_list" /\ Len(file.center) = 6 ->
         IF \E i \in 1..6 : FloatRaises(file.center[i]) # "none"
         THEN FloatRaises(file.center[CHOOSE i \in 1..6 :
                 /\ FloatRaises(file.center[i]) # "none"
                 /\ \A j \in 1..(i - 1) : FloatRaises(file.center[j]) = "none"])
         ELSE "none"
    [] OTHER -> "none"

\* except Exception: pass
CaughtByExceptException ==
  {"OSError", "JSONDecodeError", "AttributeError", "TypeError", "ValueError"}

\* an exception leaves _load_center_from_report
LoadLeaves(file) ==
  /\ file.shape # "missing"
  /\ LoadRaises(file) \notin (CaughtByExceptException \cup {"none"})

\* the list _load_center_from_report(default_center) returns when no
\* exception leaves it
LoadCenterFromReport(file, default_center) ==
  IF file.shape = "missing" THEN default_center
  ELSE IF LoadRaises(file) # "none" THEN default_center
  ELSE IF file.shape = "center_list" /\ Len(file.center) = 6
       THEN [i \in 1..6 |-> FloatOf(file.center[i])]
  ELSE default_center

VARIABLES
  routine, return_home, loops, finger_indices, strike_value,   \* arguments
  open_value, close_reference, down_fraction,                  \* hand values
  finger_text,                                                 \* --finger-indices
  center_text, home_text,         \* --center-joints / --test-arm-joints, --home-joints
  center_joints, home_joints,                                  \* the poses parsed
  skip_precheck, force, precheck_ok,                           \* main's precheck
  exit_code,                                                   \* what main returns
  use_calibration_center,                                      \* --use-calibration-center
  report_file,                   \* play_center_calibration_results.json on disk
  sweep_delta, cycles, execute, move_to_best,                  \* calibration options
  joint_limits,                  \* the limit table _joint_margin_score reads
  cand,                          \* position in CANDIDATE_CENTERS.items()
  margin,                        \* margin of the candidate under evaluation
  sweep_moves,                   \* moves issued by the running _run_sweep_benchmark
  segment_times,                 \* its segment_times list
  bench,                         \* what it returned: ok, reason
  results, best_result, report,  \* results list, selected best, report file
  slow,                          \* timed moves that took the long duration
  pc,                                                          \* position
  arm_ok, hand_ok, test_ok, completed, arm_home_reached,       \* locals
  interrupted, loop_idx, fidx, ret,
  ffo_site, ffo_ok,                                            \* _force_full_open call
  cyc_idx, cyc_step, all_ok,                                   \* cycle_all_motors call
  result,                                                      \* how the routine ended
  arm_api, hand_instrument, motors,                            \* driver and hand state
  trace,                                                       \* driver calls so far
  rejects, interrupts                                          \* environment counters

mainv == <<center_text, home_text, center_joints, home_joints, skip_precheck,
           force, precheck_ok, exit_code>>
loadv == <<use_calibration_center, report_file>>
calv == <<sweep_delta, cycles, execute, move_to_best, joint_limits, cand, margin,
          sweep_moves, segment_times, bench, results, best_result, report, slow>>
args == <<routine, return_home, loops, finger_indices, strike_value,
          open_value, close_reference, down_fraction, finger_text, mainv, loadv, calv>>
flags == <<arm_ok, hand_ok, test_ok, completed, arm_home_reached, interrupted>>
iter == <<loop_idx, fidx>>
ffo == <<ffo_site, ffo_ok>>
cyc == <<cyc_idx, cyc_step, all_ok>>
drv == <<arm_api, hand_instrument>>
vars == <<args, pc, flags, iter, ret, ffo, cyc, result, drv, motors, trace,
          rejects, interrupts>>

NoPose == <<>>
NoRegs == <<>>

\* one driver call as seen by the routine: its arguments, its boolean
\* result, whether the transport was reached, and the source step issuing it
Call(op, pose, motor, val, regs, ok, hw, step) ==
  [op |-> op, pose |-> pose, motor |-> motor, val |-> val, regs |-> regs,
   ok |-> ok, hw |-> hw, step |-> step]

\* the locals of a routine and the drivers before the try block is entered
LocalsInit ==
  /\ arm_ok = FALSE /\ hand_ok = FALSE /\ test_ok = FALSE
  /\ completed = FALSE /\ arm_home_reached = FALSE /\ interrupted = FALSE
  /\ loop_idx = 0 /\ fidx = 1 /\ ret = FALSE
  /\ ffo_site = "none" /\ ffo_ok = FALSE
  /\ cyc_idx = 0 /\ cyc_step = 1 /\ all_ok = TRUE
  /\ result = "none"
  /\ arm_api = FALSE /\ hand_instrument = FALSE
  /\ motors = [i \in 1..MOTOR_COUNT |-> -1]
  /\ trace = <<>>

\* values of variables before their first assignment
NoBench == [ok |-> FALSE, reason |-> "none"]
NoResult == [name |-> "none"]
NoReport == [written |-> FALSE]

\* the calibration's options at their defaults, its locals before the try block
CalLocalsInit ==
  /\ joint_limits = JOINT_LIMITS_DEG
  /\ cand = 1 /\ margin = 0
  /\ sweep_moves = <<>> /\ segment_times = <<>> /\ bench = NoBench
  /\ results = <<>> /\ best_result = NoResult /\ report = NoReport
  /\ slow = 0

\* the calibration is not the entry point run
CalIdle ==
  /\ sweep_delta = 10 /\ cycles = 3 /\ execute = FALSE /\ move_to_best = FALSE
  /\ CalLocalsInit

\* --use-calibration-center is not given
LoadIdle == use_calibration_center = FALSE /\ report_file = NoFile

\* main() has parsed default pose texts and passed its precheck
MainIdle ==
  /\ center_text = (IF routine = "startup" THEN TestDefaultText ELSE CenterDefaultText)
  /\ home_text = HomeDefaultText
  /\ center_joints = ParseJointTargets(center_text)
  /\ home_joints = ParseJointTargets(home_text)
  /\ skip_precheck = FALSE /\ force = FALSE /\ precheck_ok = TRUE
  /\ exit_code = "none"
  /\ LoadIdle

Init ==
  /\ routine \in Routines
  /\ return_home \in BOOLEAN
  /\ loops \in MinLoops..MaxLoops
  /\ finger_indices \in FingerSets
  \* run_startup_test takes no loop count, finger order or return_home flag
  /\ routine = "startup" =>
       loops = 0 /\ ~return_home /\ finger_indices = DEFAULT_FINGER_INDICES
  /\ finger_text \in FingerTexts
  /\ ~ParseFingerIndicesRaises(finger_text)
  /\ finger_indices = ParseFingerIndices(finger_text)
  /\ open_value = HAND_OPEN
  /\ close_reference = HAND_CLOSE_REF
  /\ down_fraction = DOWN_FRACTION_PCT
  /\ strike_value = ComputeStrikeValue(open_value, close_reference, down_fraction)
  /\ pc = "arm_connect"
  /\ MainIdle
  /\ CalIdle
  /\ LocalsInit
  /\ rejects = 0 /\ interrupts = 0


(* ----------------------------- environment ---------------------------- *)
\* what the hardware may answer to a transport-level command
HwOutcomes == IF rejects < MaxRejects THEN {TRUE, FALSE} ELSE {TRUE}

(* ------------------------------- drivers ------------------------------ *)
\* XArmDriver.move_joints: the transport is reached only when connected and
\* the pose has 6 angles
XArmReaches(pose) == arm_api /\ Len(pose) = JOINT_COUNT
XArmMoveJoints(pose, hwok) == XArmReaches(pose) /\ hwok

\* InspireHandDriver.move_single_motor: index check, then the register write
HandSingleReaches(idx) == idx >= 0 /\ idx < MOTOR_COUNT /\ hand_instrument
HandMoveSingleMotor(idx, hwok) == HandSingleReaches(idx) /\ hwok

\* InspireHandDriver.set_all_motors: the register write
HandAllReaches == hand_instrument
HandSetAllMotors(hwok) == HandAllReaches /\ hwok

\* the step arm.move_joints(pose): trace, rejection count
DoArmMove(pose, step, hwok) ==
  /\ trace' = Append(trace, Call("arm.move_joints", pose, -1, -1, NoRegs,
                                 XArmMoveJoints(pose, hwok), XArmReaches(pose), step))
  /\ rejects' = IF XArmReaches(pose) /\ ~hwok THEN rejects + 1 ELSE rejects
  /\ UNCHANGED <<drv, motors>>

\* the step hand.move_single_motor(idx, v)
DoHandSingle(idx, v, step, hwok) ==
  /\ trace' = Append(trace, Call("hand.move_single_motor", NoPose, idx, v,
                                 SingleRegs(idx, v), HandMoveSingleMotor(idx, hwok),
                                 HandSingleReaches(idx), step))
  /\ motors' = IF HandMoveSingleMotor(idx, hwok)
               THEN ApplyRegs(motors, SingleRegs(idx, v)) ELSE motors
  /\ rejects' = IF HandSingleReaches(idx) /\ ~hwok THEN rejects + 1 ELSE rejects
  /\ UNCHANGED drv

\* the step hand.set_all_motors(v)
DoHandAll(v, step, hwok) ==
  /\ trace' = Append(trace, Call("hand.set_all_motors", NoPose, -1, v,
                                 AllRegs(v), HandSetAllMotors(hwok),
                                 HandAllReaches, step))
  /\ motors' = IF HandSetAllMotors(hwok) THEN ApplyRegs(motors, AllRegs(v)) ELSE motors
  /\ rejects' = IF HandAllReaches /\ ~hwok THEN rejects + 1 ELSE rejects
  /\ UNCHANGED drv

(* ------------------------- routine skeleton --------------------------- *)
\* the pose of the positioning move: home for startup, play center otherwise
PositionPose ==
  IF routine = "startup" THEN DEFAULT_HOME_JOINTS_DEG ELSE DEFAULT_CENTER_JOINTS_DEG

\* first statement of the routine's finally block
FinallyStart ==
  CASE routine = "startup"  -> "fin_home_first"
    [] routine = "note"     -> "fin_hand_disc"
    [] routine = "practice" -> "fin_hand_open"

FinallyPcs == {"fin_home_first", "fin_hand_open", "fin_hand_disc", "fin_home",
               "fin_arm_disc"}
FfoPcs == {"ffo1", "ffo2", "ffo3", "ffo_ret"}
LoopPcs == {"loop_top", "press", "release"}

\* control is inside the finally block
InFinally ==
  pc \in FinallyPcs \/ (pc \in FfoPcs /\ ffo_site = "cleanup_open")

\* "return <val>" inside the try block: the value is kept, finally runs
Return(val) == result' = val /\ pc' = FinallyStart

\* arm.connect(): XArmAPI(...) and the mode/state calls succeed or raise
ArmConnect ==
  /\ pc = "arm_connect"
  /\ \E ok \in BOOLEAN :
       /\ arm_api' = ok
       /\ ret' = ok
       /\ trace' = Append(trace, Call("arm.connect", NoPose, -1, -1, NoRegs,
                                      ok, TRUE, "arm_connect"))
  /\ pc' = "arm_store"
  /\ UNCHANGED <<args, flags, iter, ffo, cyc, result, hand_instrument, motors,
                 rejects, interrupts>>

\* arm_ok = <returned value>; if not arm_ok: return False
ArmStore ==
  /\ pc = "arm_store"
  /\ arm_ok' = ret
  /\ IF ret THEN pc' = "arm_position" /\ UNCHANGED result ELSE Return("false")
  /\ UNCHANGED <<args, hand_ok, test_ok, completed, arm_home_reached, interrupted,
                 iter, ret, ffo, cyc, drv, motors, trace, rejects, interrupts>>

\* move to the home pose (startup) or the play-center pose
ArmPosition ==
  /\ pc = "arm_position"
  /\ \E hwok \in HwOutcomes :
       /\ DoArmMove(PositionPose, "position", hwok)
       /\ IF XArmMoveJoints(PositionPose, hwok)
          THEN pc' = "hand_connect" /\ UNCHANGED result
          ELSE Return("false")
  /\ UNCHANGED <<args, flags, iter, ret, ffo, cyc, interrupts>>

\* hand.connect(): the serial instrument opens or raises
HandConnect ==
  /\ pc = "hand_connect"
  /\ \E ok \in BOOLEAN :
       /\ hand_instrument' = ok
       /\ ret' = ok
       /\ trace' = Append(trace, Call("hand.connect", NoPose, -1, -1, NoRegs,
                                      ok, TRUE, "hand_connect"))
  /\ pc' = "hand_store"
  /\ UNCHANGED <<args, flags, iter, ffo, cyc, result, arm_api, motors,
                 rejects, interrupts>>

\* hand_ok = <returned value>; if not hand_ok: return False
HandStore ==
  /\ pc = "hand_store"
  /\ hand_ok' = ret
  /\ IF ret THEN pc' = "hand_open" /\ UNCHANGED result ELSE Return("false")
  /\ UNCHANGED <<args, arm_ok, test_ok, completed, arm_home_reached, interrupted,
                 iter, ret, ffo, cyc, drv, motors, trace, rejects, interrupts>>

\* the hand's opening before the choreography: one set_all_motors in the
\* startup routine, a call of _force_full_open in the other two
HandOpen ==
  /\ pc = "hand_open"
  /\ IF routine = "startup"
     THEN /\ \E hwok \in HwOutcomes :
               /\ DoHandAll(open_value, "open", hwok)
               /\ IF HandSetAllMotors(hwok)
                  THEN pc' = "arm_test_pose" /\ UNCHANGED result
                  ELSE Return("false")
          /\ UNCHANGED ffo
     ELSE /\ pc' = "ffo1"
          /\ ffo_site' = "open"
          /\ UNCHANGED <<ffo_ok, result, drv, motors, trace, rejects>>
  /\ UNCHANGED <<args, flags, iter, ret, cyc, interrupts>>

(* -------------------------- _force_full_open -------------------------- *)
\* the sequence going on after a rejected command
Mut_FfoStops_Never(ok) == FALSE

\* "if not hand.<command>(...): return False" inside _force_full_open
FfoStops(ok) == ~ok

\* step 1: all motors -> open_value
Ffo1 ==
  /\ pc = "ffo1"
  /\ \E hwok \in HwOutcomes :
       /\ DoHandAll(open_value, ffo_site, hwok)
       /\ IF FfoStops(HandSetAllMotors(hwok))
          THEN pc' = "ffo_ret" /\ ffo_ok' = FALSE
          ELSE /\ pc' = IF Len(finger_indices) > 0 THEN "ffo2" ELSE "ffo3"
               /\ UNCHANGED ffo_ok
  /\ fidx' = 1
  /\ UNCHANGED <<args, flags, loop_idx, ret, ffo_site, cyc, result, interrupts>>

\* step 2: touch each target finger -> open_value
Ffo2 ==
  /\ pc = "ffo2"
  /\ \E hwok \in HwOutcomes :
       /\ DoHandSingle(finger_indices[fidx], open_value, ffo_site, hwok)
       /\ IF FfoStops(HandMoveSingleMotor(finger_indices[fidx], hwok))
          THEN pc' = "ffo_ret" /\ ffo_ok' = FALSE /\ UNCHANGED fidx
          ELSE /\ pc' = IF fidx < Len(finger_indices) THEN "ffo2" ELSE "ffo3"
               /\ fidx' = fidx + 1
               /\ UNCHANGED ffo_ok
  /\ UNCHANGED <<args, flags, loop_idx, ret, ffo_site, cyc, result, interrupts>>

\* step 3: all motors -> open_value, whose result is the function's result
Ffo3 ==
  /\ pc = "ffo3"
  /\ \E hwok \in HwOutcomes :
       /\ DoHandAll(open_value, ffo_site, hwok)
       /\ ffo_ok' = HandSetAllMotors(hwok)
  /\ pc' = "ffo_ret"
  /\ UNCHANGED <<args, flags, iter, ret, ffo_site, cyc, result, interrupts>>

\* the caller's use of the result of _force_full_open
FfoReturn ==
  /\ pc = "ffo_ret"
  /\ CASE ffo_site = "open" ->
            /\ IF ffo_ok THEN pc' = "loop_top" /\ UNCHANGED result
                         ELSE Return("false")
            /\ UNCHANGED test_ok
       [] ffo_site = "final_open" ->
            IF ffo_ok THEN test_ok' = TRUE /\ Return("true")
                      ELSE UNCHANGED test_ok /\ Return("false")
       [] ffo_site = "cleanup_open" ->
            pc' = "fin_hand_disc" /\ UNCHANGED <<result, test_ok>>
  /\ UNCHANGED <<args, arm_ok, hand_ok, completed, arm_home_reached, interrupted,
                 iter, ret, ffo, cyc, drv, motors, trace, rejects, interrupts>>


(* ------------------- note loop and practice loop ---------------------- *)
\* the loop bound tested one iteration late
Mut_LoopBound_OffByOne == loops > 0 /\ loop_idx > loops

\* the loop bound tested without "max_loops > 0"
Mut_LoopBound_Always == loop_idx >= loops

\* the practice loop stops at its top when the loop bound is reached
LoopBoundReached == loops > 0 /\ loop_idx >= loops

\* head of "for loop_idx in range(loops)" (note test) and of "while True"
\* with the max_loops test (practice)
LoopTop ==
  /\ pc = "loop_top"
  /\ IF routine = "note"
     THEN IF loop_idx < loops
          THEN /\ loop_idx' = loop_idx + 1
               /\ fidx' = 1
               /\ pc' = IF Len(finger_indices) > 0 THEN "press" ELSE "loop_top"
               /\ UNCHANGED <<completed, result>>
          ELSE /\ pc' = "final_open"
               /\ UNCHANGED <<iter, completed, result>>
     ELSE IF LoopBoundReached
          THEN /\ completed' = TRUE
               /\ Return("true")
               /\ UNCHANGED iter
          ELSE /\ loop_idx < Max2(loops, MaxIter)
               /\ loop_idx' = loop_idx + 1
               /\ fidx' = 1
               /\ pc' = IF Len(finger_indices) > 0 THEN "press" ELSE "loop_top"
               /\ UNCHANGED <<completed, result>>
  /\ UNCHANGED <<args, arm_ok, hand_ok, test_ok, arm_home_reached, interrupted,
                 ret, ffo, cyc, drv, motors, trace, rejects, interrupts>>

\* hand.move_single_motor(finger_idx, strike_value)
Press ==
  /\ pc = "press"
  /\ \E hwok \in HwOutcomes :
       /\ DoHandSingle(finger_indices[fidx], strike_value, "press", hwok)
       /\ IF HandMoveSingleMotor(finger_indices[fidx], hwok)
          THEN pc' = "release" /\ UNCHANGED result
          ELSE Return("false")
  /\ UNCHANGED <<args, flags, iter, ret, ffo, cyc, interrupts>>

\* hand.move_single_motor(finger_idx, open_value)
Release ==
  /\ pc = "release"
  /\ \E hwok \in HwOutcomes :
       /\ DoHandSingle(finger_indices[fidx], open_value, "release", hwok)
       /\ IF HandMoveSingleMotor(finger_indices[fidx], hwok)
          THEN /\ pc' = IF fidx < Len(finger_indices) THEN "press" ELSE "loop_top"
               /\ fidx' = fidx + 1
               /\ UNCHANGED result
          ELSE Return("false") /\ UNCHANGED fidx
  /\ UNCHANGED <<args, flags, loop_idx, ret, ffo, cyc, interrupts>>

\* after the loops: the note test's final _force_full_open, the startup
\* routine's final set_all_motors
FinalOpen ==
  /\ pc = "final_open"
  /\ IF routine = "startup"
     THEN /\ \E hwok \in HwOutcomes :
               /\ DoHandAll(open_value, "final_open", hwok)
               /\ IF HandSetAllMotors(hwok)
                  THEN pc' = "arm_return_home" /\ UNCHANGED result
                  ELSE Return("false")
          /\ UNCHANGED ffo
     ELSE /\ pc' = "ffo1"
          /\ ffo_site' = "final_open"
          /\ UNCHANGED <<ffo_ok, result, drv, motors, trace, rejects>>
  /\ UNCHANGED <<args, flags, iter, ret, cyc, interrupts>>

(* ----------------------- startup choreography ------------------------- *)
\* move to the startup test pose
ArmTestPose ==
  /\ pc = "arm_test_pose"
  /\ \E hwok \in HwOutcomes :
       /\ DoArmMove(DEFAULT_ARM_TEST_JOINTS_DEG, "test_pose", hwok)
       /\ IF XArmMoveJoints(DEFAULT_ARM_TEST_JOINTS_DEG, hwok)
          THEN pc' = "cycle" /\ UNCHANGED result
          ELSE Return("false")
  /\ cyc_idx' = 0 /\ cyc_step' = 1 /\ all_ok' = TRUE
  /\ UNCHANGED <<args, flags, iter, ret, ffo, interrupts>>

\* the value of the k-th command of one motor's cycle: open, close, open
CycleValue(k) == IF k = 2 THEN close_reference ELSE open_value

\* whether cycle_all_motors goes on after a command returned ok
CycleContinues(ok) == TRUE

\* one command of cycle_all_motors: all_ok &= move_single_motor(idx, value)
Cycle ==
  /\ pc = "cycle"
  /\ \E hwok \in HwOutcomes :
       /\ DoHandSingle(cyc_idx, CycleValue(cyc_step), "cycle", hwok)
       /\ all_ok' = (all_ok /\ HandMoveSingleMotor(cyc_idx, hwok))
       /\ IF CycleContinues(HandMoveSingleMotor(cyc_idx, hwok))
             /\ ~(cyc_step = 3 /\ cyc_idx = MOTOR_COUNT - 1)
          THEN /\ pc' = "cycle"
               /\ cyc_step' = IF cyc_step = 3 THEN 1 ELSE cyc_step + 1
               /\ cyc_idx' = IF cyc_step = 3 THEN cyc_idx + 1 ELSE cyc_idx
          ELSE /\ pc' = "cycle_ret"
               /\ UNCHANGED <<cyc_idx, cyc_step>>
  /\ UNCHANGED <<args, flags, iter, ret, ffo, result, interrupts>>

\* if not hand.cycle_all_motors(...): return False
CycleReturn ==
  /\ pc = "cycle_ret"
  /\ IF all_ok THEN pc' = "final_open" /\ UNCHANGED result ELSE Return("false")
  /\ UNCHANGED <<args, flags, iter, ret, ffo, cyc, drv, motors, trace, rejects,
                 interrupts>>

\* the startup routine's return to the home pose, which ends its try block
ArmReturnHome ==
  /\ pc = "arm_return_home"
  /\ \E hwok \in HwOutcomes :
       /\ DoArmMove(DEFAULT_HOME_JOINTS_DEG, "return_home", hwok)
       /\ IF XArmMoveJoints(DEFAULT_HOME_JOINTS_DEG, hwok)
          THEN arm_home_reached' = TRUE /\ Return("true")
          ELSE UNCHANGED arm_home_reached /\ Return("false")
  /\ UNCHANGED <<args, arm_ok, hand_ok, test_ok, completed, interrupted, iter, ret,
                 ffo, cyc, interrupts>>

(* ------------------------------ cleanup ------------------------------- *)
\* the home move of cleanup tied to the preference alone
Mut_NoteHome_PreferenceOnly == return_home
\* the home move of cleanup without the interrupted case
Mut_PracticeHome_NoInterruptCase == return_home \/ ~completed

\* whether the finally block moves the arm home
StartupHomeInCleanup == arm_ok /\ ~arm_home_reached
NoteHomeInCleanup == return_home \/ ~test_ok
PracticeHomeInCleanup == interrupted \/ return_home \/ ~completed

HomeInCleanup ==
  IF routine = "note" THEN NoteHomeInCleanup ELSE PracticeHomeInCleanup

\* startup: if arm_ok and not arm_home_reached: arm.move_joints(home)
FinHomeFirst ==
  /\ pc = "fin_home_first"
  /\ IF StartupHomeInCleanup
     THEN \E hwok \in HwOutcomes :
            DoArmMove(DEFAULT_HOME_JOINTS_DEG, "cleanup_home", hwok)
     ELSE UNCHANGED <<drv, motors, trace, rejects>>
  /\ pc' = "fin_hand_disc"
  /\ UNCHANGED <<args, flags, iter, ret, ffo, cyc, result, interrupts>>

\* the fully-open sequence of cleanup left out / run without the hand_ok test
Mut_PracticeOpens_Never == FALSE
Mut_PracticeOpens_Always == TRUE

\* whether the practice routine's finally block opens the hand
PracticeOpensInCleanup == hand_ok

\* practice: if hand_ok: _force_full_open(...), then hand.disconnect()
FinHandOpen ==
  /\ pc = "fin_hand_open"
  /\ IF PracticeOpensInCleanup
     THEN pc' = "ffo1" /\ ffo_site' = "cleanup_open"
     ELSE pc' = (IF hand_ok THEN "fin_hand_disc" ELSE "fin_home")
          /\ UNCHANGED ffo_site
  /\ UNCHANGED <<args, flags, iter, ret, ffo_ok, cyc, result, drv, motors, trace,
                 rejects, interrupts>>

\* hand.disconnect() called whether or not the hand connected
Mut_DisconnectsHand_Always == TRUE
\* arm.disconnect() only on the success path
Mut_DisconnectsArm_OnSuccess == arm_ok /\ result = "true"
\* hand.disconnect() skipped when the fully-open sequence of cleanup failed
Mut_DisconnectsHand_IfOpened == hand_ok /\ (routine = "practice" => ffo_ok)

\* whether the finally block disconnects the hand / the arm
DisconnectsHand == hand_ok
DisconnectsArm == arm_ok

\* if hand_ok: hand.disconnect()
FinHandDisc ==
  /\ pc = "fin_hand_disc"
  /\ IF DisconnectsHand
     THEN /\ trace' = Append(trace, Call("hand.disconnect", NoPose, -1, -1, NoRegs,
                                         TRUE, hand_instrument, "cleanup"))
          /\ hand_instrument' = FALSE
     ELSE UNCHANGED <<hand_instrument, trace>>
  /\ pc' = IF routine = "startup" THEN "fin_arm_disc"
           ELSE IF arm_ok THEN "fin_home" ELSE "done"
  /\ UNCHANGED <<args, flags, iter, ret, ffo, cyc, result, arm_api, motors,
                 rejects, interrupts>>

\* note test and practice: inside "if arm_ok", the home move and its conditions
FinHome ==
  /\ pc = "fin_home"
  /\ IF arm_ok /\ HomeInCleanup
     THEN \E hwok \in HwOutcomes :
            DoArmMove(DEFAULT_HOME_JOINTS_DEG, "cleanup_home", hwok)
     ELSE UNCHANGED <<drv, motors, trace, rejects>>
  /\ pc' = IF arm_ok THEN "fin_arm_disc" ELSE "done"
  /\ UNCHANGED <<args, flags, iter, ret, ffo, cyc, result, interrupts>>

\* if arm_ok: arm.disconnect(); the routine then returns
FinArmDisc ==
  /\ pc = "fin_arm_disc"
  /\ IF DisconnectsArm
     THEN /\ trace' = Append(trace, Call("arm.disconnect", NoPose, -1, -1, NoRegs,
                                         TRUE, arm_api, "cleanup"))
          /\ arm_api' = FALSE
     ELSE UNCHANGED <<arm_api, trace>>
  /\ pc' = "done"
  /\ UNCHANGED <<args, flags, iter, ret, ffo, cyc, result, hand_instrument, motors,
                 rejects, interrupts>>

(* ----------------------------- interrupt ------------------------------ *)
\* except KeyboardInterrupt (practice only): interrupted = completed = True,
\* return True
Except ==
  /\ pc = "except"
  /\ interrupted' = TRUE
  /\ completed' = TRUE
  /\ Return("true")
  /\ UNCHANGED <<args, arm_ok, hand_ok, test_ok, arm_home_reached, iter, ret, ffo,
                 cyc, drv, motors, trace, rejects, interrupts>>

\* where a KeyboardInterrupt raised at the current position takes control:
\* out of the routine from a finally block or an except handler's finally,
\* into the handler from the practice routine's try block, into the finally
\* block from the try block of the other two routines
InterruptTarget ==
  IF InFinally THEN "done"
  ELSE IF pc = "except" THEN FinallyStart
  ELSE IF routine = "practice" THEN "except"
  ELSE FinallyStart

\* a KeyboardInterrupt is raised at the current position
Interrupt ==
  /\ pc # "done"
  /\ interrupts < MaxInterrupts
  /\ interrupts' = interrupts + 1
  /\ trace' = Append(trace, Call("KeyboardInterrupt", NoPose, -1, -1, NoRegs,
                                 FALSE, FALSE, IF InFinally THEN "finally" ELSE pc))
  /\ pc' = InterruptTarget
  /\ result' = IF InterruptTarget = "except" THEN result ELSE "raised"
  /\ UNCHANGED <<args, flags, iter, ret, ffo, cyc, drv, motors, rejects>>

Next ==
  \/ ArmConnect \/ ArmStore \/ ArmPosition \/ HandConnect \/ HandStore \/ HandOpen
  \/ Ffo1 \/ Ffo2 \/ Ffo3 \/ FfoReturn
  \/ LoopTop \/ Press \/ Release \/ FinalOpen
  \/ ArmTestPose \/ Cycle \/ CycleReturn \/ ArmReturnHome
  \/ FinHomeFirst \/ FinHandOpen \/ FinHandDisc \/ FinHome \/ FinArmDisc
  \/ Except \/ Interrupt

Spec == Init /\ [][Next]_vars


(* ====================================================================== *)
(* Observations on a run                                                  *)
(* ====================================================================== *)
Idx == 1..Len(trace)
Terminated == pc = "done"

IsArmMove(e) == e.op = "arm.move_joints"
IsHandCmd(e) == e.op \in {"hand.set_all_motors", "hand.move_single_motor"}
IsCmd(e) == IsArmMove(e) \/ IsHandCmd(e)
IsInterrupt(e) == e.op = "KeyboardInterrupt"

\* steps of the try block (the main sequence) and of the finally block
MainSteps == {"position", "open", "press", "release", "test_pose", "cycle",
              "final_open", "return_home"}
CleanupSteps == {"cleanup_open", "cleanup_home"}

Count(P(_)) == Cardinality({i \in Idx : P(trace[i])})
Occurs(P(_)) == \E i \in Idx : P(trace[i])

ArmConnectOk(e) == e.op = "arm.connect" /\ e.ok
ArmConnectFailed(e) == e.op = "arm.connect" /\ ~e.ok
HandConnectCalled(e) == e.op = "hand.connect"
HandConnectOk(e) == e.op = "hand.connect" /\ e.ok
HandConnectFailed(e) == e.op = "hand.connect" /\ ~e.ok
HandDisconnect(e) == e.op = "hand.disconnect"
ArmDisconnect(e) == e.op = "arm.disconnect"
PositionRejected(e) == IsArmMove(e) /\ e.step = "position" /\ ~e.ok
HomeMove(e) == IsArmMove(e) /\ e.pose = DEFAULT_HOME_JOINTS_DEG
CleanupHomeMove(e) == HomeMove(e) /\ e.step = "cleanup_home"
CleanupArmMove(e) == IsArmMove(e) /\ e.step \in CleanupSteps
MainRejected(e) == IsCmd(e) /\ e.step \in MainSteps /\ ~e.ok

NoInterrupt == interrupts = 0

\* the calls of a run reduced to what was asked of the drivers
Asked(e) == <<e.op, e.pose, e.motor, e.val>>
AskedSeq(t) == [i \in 1..Len(t) |-> Asked(t[i])]

\* the fully-open sequence for finger order F: all, each finger of F, all
FullOpenAsked(F) ==
  <<  <<"hand.set_all_motors", NoPose, -1, open_value>>  >>
  \o [i \in 1..Len(F) |-> <<"hand.move_single_motor", NoPose, F[i], open_value>>]
  \o <<  <<"hand.set_all_motors", NoPose, -1, open_value>>  >>

\* t is one execution of the fully-open sequence: the whole sequence with
\* every command accepted, or the sequence up to its first rejected command
IsFullOpenRun(t, F) ==
  /\ Len(t) >= 1
  /\ Len(t) <= Len(F) + 2
  /\ AskedSeq(t) = SubSeq(FullOpenAsked(F), 1, Len(t))
  /\ \A i \in 1..(Len(t) - 1) : t[i].ok
  /\ Len(t) < Len(F) + 2 => ~t[Len(t)].ok

DisconnectHandAsked == <<"hand.disconnect", NoPose, -1, -1>>
DisconnectArmAsked == <<"arm.disconnect", NoPose, -1, -1>>
HomeAsked == <<"arm.move_joints", DEFAULT_HOME_JOINTS_DEG, -1, -1>>

\* the part of the trace after position k
After(k) == SubSeq(trace, k + 1, Len(trace))
HandCmdsOf(t) == SelectSeq(t, IsHandCmd)
NonHandCmdsOf(t) == SelectSeq(t, LAMBDA e : ~IsHandCmd(e))


(* ====================================================================== *)
(* Claims                                                                 *)
(* ====================================================================== *)

\* C1: in the note test and the practice routine, when arm.connect succeeded
\* and the move to the play-center pose was rejected, hand.connect is never
\* called and no hand motor command is ever issued; and when the routine has
\* returned (no KeyboardInterrupt having arrived) it returned failure and
\* arm.disconnect was called, as the last driver call.
C1_PlayCenterRejected ==
  (routine \in {"note", "practice"} /\ Occurs(ArmConnectOk) /\ Occurs(PositionRejected))
  => /\ ~Occurs(HandConnectCalled)
     /\ ~Occurs(IsHandCmd)
     /\ (Terminated /\ NoInterrupt)
        => /\ result = "false"
           /\ Count(ArmDisconnect) = 1
           /\ ArmDisconnect(trace[Len(trace)])

C1_Witness ==
  /\ Terminated /\ NoInterrupt /\ routine = "practice" /\ ~return_home
  /\ Occurs(ArmConnectOk) /\ Occurs(PositionRejected)
  /\ result = "false"

InterruptInLoop(e) == IsInterrupt(e) /\ e.step \in LoopPcs

\* C2: when the practice routine has returned after exactly one
\* KeyboardInterrupt, which arrived inside the practice loop, it returned
\* success, and what it asked of the drivers after the interrupt is: the
\* fully-open sequence (whole, or up to its first rejected command), then
\* hand.disconnect, then one move_joints to the home pose, then
\* arm.disconnect -- whatever return_home is.
C2_InterruptInLoop ==
  (routine = "practice" /\ Terminated /\ interrupts = 1 /\ Occurs(InterruptInLoop))
  => LET k == CHOOSE i \in Idx : InterruptInLoop(trace[i])
         t == After(k)
     IN  /\ result = "true"
         /\ t = HandCmdsOf(t) \o NonHandCmdsOf(t)
         /\ IsFullOpenRun(HandCmdsOf(t), finger_indices)
         /\ \A i \in 1..Len(HandCmdsOf(t)) : HandCmdsOf(t)[i].step = "cleanup_open"
         /\ AskedSeq(NonHandCmdsOf(t))
              = <<DisconnectHandAsked, HomeAsked, DisconnectArmAsked>>

C2_Witness ==
  /\ routine = "practice" /\ Terminated /\ interrupts = 1 /\ ~return_home
  /\ \E i \in Idx : InterruptInLoop(trace[i]) /\ trace[i].step = "release"
  /\ result = "true"
  /\ Count(CleanupHomeMove) = 1


\* the motors a routine plays with: every motor in the startup routine,
\* the finger order's motors in the other two
FingerMotors ==
  IF routine = "startup" THEN 0..(MOTOR_COUNT - 1)
  ELSE {finger_indices[i] : i \in 1..Len(finger_indices)}

Addresses(e, f) ==
  e.op = "hand.set_all_motors" \/ (e.op = "hand.move_single_motor" /\ e.motor = f)

\* the value of the last command issued to motor f, -1 when there is none
LastValueTo(f) ==
  LET S == {i \in Idx : Addresses(trace[i], f)}
  IN  IF S = {} THEN -1
      ELSE trace[CHOOSE i \in S : \A j \in S : j <= i].val

\* C3 as stated, on its exit paths without KeyboardInterrupt (normal
\* completion, rejection of any command): in each routine, once
\* hand.disconnect has been called, the last value commanded to every finger
\* motor is open_value.
C3_HandOpenBeforeDisconnect ==
  (NoInterrupt /\ Occurs(HandDisconnect))
  => \A f \in FingerMotors : LastValueTo(f) = HAND_OPEN

IndexOf(P(_)) == CHOOSE i \in Idx : P(trace[i])

\* C4: in each routine, when the routine has been left, an actuator whose
\* connect() returned true to the routine has been disconnected exactly
\* once, an actuator whose connect() failed or was never called has not been
\* disconnected, and hand.disconnect precedes arm.disconnect.
C4_DisconnectExactlyOnce ==
  Terminated
  => /\ Count(ArmDisconnect) = (IF arm_ok THEN 1 ELSE 0)
     /\ Count(HandDisconnect) = (IF hand_ok THEN 1 ELSE 0)
     /\ (Occurs(HandDisconnect) /\ Occurs(ArmDisconnect))
        => IndexOf(HandDisconnect) < IndexOf(ArmDisconnect)

\* C5: in each routine, when the routine has returned (no KeyboardInterrupt
\* having arrived) after the arm connected and a command of the main
\* sequence was rejected or hand.connect failed, cleanup has issued exactly
\* one arm move, to the home pose, before the one arm.disconnect -- whatever
\* return_home is.
C5_HomeAfterFailure ==
  (Terminated /\ NoInterrupt /\ Occurs(ArmConnectOk)
     /\ (Occurs(MainRejected) \/ Occurs(HandConnectFailed)))
  => /\ Count(CleanupArmMove) = 1
     /\ Count(CleanupHomeMove) = 1
     /\ Count(ArmDisconnect) = 1
     /\ IndexOf(CleanupHomeMove) < IndexOf(ArmDisconnect)

PressRejected(e) == e.step = "press" /\ ~e.ok

C5_Witness ==
  /\ Terminated /\ NoInterrupt /\ routine = "note" /\ ~return_home
  /\ Occurs(PressRejected)
  /\ Count(CleanupHomeMove) = 1

\* C6: in the note test and the practice routine, when the routine has
\* returned success with no command rejected and no KeyboardInterrupt, the
\* hand commands right before hand.disconnect are one whole fully-open
\* sequence, the arm was moved home (once, in cleanup) exactly if return_home
\* is true, and with return_home false the play-center move is the only arm
\* move of the run.
C6_NormalCompletion ==
  (routine \in {"note", "practice"} /\ Terminated /\ NoInterrupt /\ rejects = 0
     /\ result = "true")
  => /\ Count(HandDisconnect) = 1
     /\ LET d == IndexOf(HandDisconnect)
            h == HandCmdsOf(SubSeq(trace, 1, d - 1))
            n == Len(finger_indices) + 2
        IN  /\ Len(h) >= n
            /\ IsFullOpenRun(SubSeq(h, Len(h) - n + 1, Len(h)), finger_indices)
            /\ \A i \in (d - n)..(d - 1) : IsHandCmd(trace[i])
     /\ Count(CleanupHomeMove) = (IF return_home THEN 1 ELSE 0)
     /\ Count(IsArmMove) = (IF return_home THEN 2 ELSE 1)
     /\ trace[2].step = "position"

C6_Witness ==
  /\ routine = "practice" /\ Terminated /\ NoInterrupt /\ rejects = 0
  /\ result = "true" /\ ~return_home /\ loops = 2
  /\ Count(IsArmMove) = 1


ArmMovesOf(t) == SelectSeq(t, IsArmMove)

\* C7: in each routine, with no KeyboardInterrupt: when arm.connect failed,
\* nothing else was ever asked of either driver and the routine, once
\* returned, returned failure; when hand.connect failed, no hand motor
\* command and no hand.disconnect was ever issued and the routine, once
\* returned, returned failure with the arm disconnected, as the last call.
C7_ConnectFailure ==
  NoInterrupt
  => /\ Occurs(ArmConnectFailed)
        => /\ Len(trace) = 1
           /\ Terminated => result = "false"
     /\ Occurs(HandConnectFailed)
        => /\ ~Occurs(IsHandCmd)
           /\ ~Occurs(HandDisconnect)
           /\ Terminated
              => /\ result = "false"
                 /\ Count(ArmDisconnect) = 1
                 /\ ArmDisconnect(trace[Len(trace)])

C7_Witness ==
  /\ Terminated /\ NoInterrupt /\ routine = "startup"
  /\ Occurs(HandConnectFailed)
  /\ Occurs(ArmDisconnect)
  /\ result = "false"

\* C8 as stated: in a run in which arm.connect or hand.connect returned
\* false, no move_joints and no hand motor command is issued at any point.
C8_NoMotionOnConnectFailure ==
  (Occurs(ArmConnectFailed) \/ Occurs(HandConnectFailed))
  => ~Occurs(IsArmMove) /\ ~Occurs(IsHandCmd)

\* C8 amended: when arm.connect returned false no move_joints and no hand
\* motor command is issued at any point; when hand.connect returned false no
\* hand motor command is issued at any point, and the arm moves of the run
\* are the accepted positioning move, issued before the failed connect, and
\* at most one move to the home pose in cleanup (exactly one once the routine
\* has returned without a KeyboardInterrupt).
C8_MotionOnConnectFailure ==
  /\ Occurs(ArmConnectFailed) => ~Occurs(IsCmd)
  /\ Occurs(HandConnectFailed)
     => /\ ~Occurs(IsHandCmd)
        /\ LET m == ArmMovesOf(trace)
           IN  /\ Len(m) \in {1, 2}
               /\ m[1].step = "position" /\ m[1].ok
               /\ m[1] = trace[IndexOf(HandConnectFailed) - 1]
               /\ Len(m) = 2 => CleanupHomeMove(m[2])
               /\ (Terminated /\ NoInterrupt) => Len(m) = 2

C8_Witness ==
  /\ Terminated /\ NoInterrupt /\ routine = "practice" /\ ~return_home
  /\ Occurs(HandConnectFailed)
  /\ Count(IsArmMove) = 2

\* C9 as stated: in each routine, once a command of the main sequence was
\* rejected no further command of the main sequence is issued, and the
\* routine, once returned (no KeyboardInterrupt having arrived), returned
\* failure.
C9_AbortOnFirstRejection ==
  /\ \A i, j \in Idx :
       (i < j /\ MainRejected(trace[i])) => trace[j].step \notin MainSteps
  /\ (Terminated /\ NoInterrupt /\ Occurs(MainRejected)) => result = "false"

SameAsked(i, j) == IsCmd(trace[i]) /\ IsCmd(trace[j]) /\ Asked(trace[i]) = Asked(trace[j])

\* C10 as stated: once an arm move or hand motor command was rejected, the
\* same command (operation, motor or pose, value) is never issued again.
C10_NeverIssuedAgain ==
  \A i, j \in Idx : (i < j /\ ~trace[i].ok) => ~SameAsked(i, j)

\* C10 amended: a command that was rejected is issued again only by the
\* safe-state recovery of cleanup (the fully-open sequence, the home move)
\* after a rejection in the main sequence, or by the remaining steps of
\* cycle_all_motors, which goes on after a rejected command (C9); a command
\* rejected in cleanup is never issued again.
C10_ReissuedOnlyByRecovery ==
  \A i, j \in Idx :
    (i < j /\ ~trace[i].ok /\ SameAsked(i, j))
    => \/ trace[i].step \in MainSteps /\ trace[j].step \in CleanupSteps
       \/ trace[i].step = "cycle" /\ trace[j].step = "cycle"

C10_Witness ==
  /\ Terminated /\ routine = "practice"
  /\ \E i, j \in Idx :
       /\ i < j /\ ~trace[i].ok /\ SameAsked(i, j)
       /\ trace[i].step = "release" /\ trace[j].step = "cleanup_open"

CleanupRejected(e) == IsCmd(e) /\ e.step \in CleanupSteps /\ ~e.ok
InterruptInFinally(e) == IsInterrupt(e) /\ e.step = "finally"

\* C11: in each routine, no step of the finally block other than a
\* KeyboardInterrupt changes the value the routine returns, which the try
\* block fixed; and when the routine has been left after a cleanup command
\* (a step of the fully-open sequence, the home move) was rejected, no
\* KeyboardInterrupt having arrived in the finally block, every actuator that
\* connected has been disconnected once.
C11_CleanupBestEffort ==
  /\ [][(InFinally /\ interrupts' = interrupts) => result' = result]_vars
  /\ []((Terminated /\ Occurs(CleanupRejected) /\ ~Occurs(InterruptInFinally))
        => /\ result \in {"true", "false"} \/ interrupts > 0
           /\ Count(ArmDisconnect) = (IF arm_ok THEN 1 ELSE 0)
           /\ Count(HandDisconnect) = (IF hand_ok THEN 1 ELSE 0))

C11_Witness ==
  /\ Terminated /\ NoInterrupt /\ routine = "practice"
  /\ result = "true"
  /\ \E i \in Idx : CleanupRejected(trace[i]) /\ trace[i].step = "cleanup_open"
  /\ Count(HandDisconnect) = 1 /\ Count(ArmDisconnect) = 1

LoopPress(e) == e.op = "hand.move_single_motor" /\ e.step = "press"
LoopRelease(e) == e.op = "hand.move_single_motor" /\ e.step = "release"

\* the loop has commanded a finger to the strike value at position i and has
\* not commanded it back before position k
HeldDownAt(i, k) ==
  /\ i < k /\ LoopPress(trace[i])
  /\ ~\E j \in (i + 1)..(k - 1) :
        LoopRelease(trace[j]) /\ trace[j].motor = trace[i].motor

\* C12 as stated: in the practice routine, a KeyboardInterrupt taking control
\* out of the loop never finds a finger that the loop has commanded to the
\* strike value and not yet commanded back to open_value.
C12_InterruptAtLoopBoundary ==
  routine = "practice"
  => \A k \in Idx : InterruptInLoop(trace[k]) => ~\E i \in Idx : HeldDownAt(i, k)

\* the phase of the routine's lifecycle a driver call belongs to
PhaseOf(e) ==
  CASE e.step = "arm_connect" -> 1
    [] e.step = "position" -> 2
    [] e.step = "hand_connect" -> 3
    [] e.step = "open" -> 4
    [] e.step \in {"press", "release", "test_pose", "cycle", "final_open",
                   "return_home"} -> 5
    [] OTHER -> 6

DriverCalls == {i \in Idx : ~IsInterrupt(trace[i])}

\* the calls of the run are ordered by phase; a call of a phase up to the
\* choreography is issued only when every earlier phase has taken place
\* with every call of it accepted
PhasesInOrder ==
  /\ \A i, j \in DriverCalls : i < j => PhaseOf(trace[i]) <= PhaseOf(trace[j])
  /\ \A j \in DriverCalls :
       PhaseOf(trace[j]) <= 5
       => /\ \A p \in 1..(PhaseOf(trace[j]) - 1) :
               \E i \in 1..(j - 1) : PhaseOf(trace[i]) = p
          /\ \A i \in 1..(j - 1) :
               PhaseOf(trace[i]) < PhaseOf(trace[j]) => trace[i].ok

\* no arm move after the hand's opening and before cleanup
NoArmMoveInChoreography ==
  \A j \in DriverCalls : IsArmMove(trace[j]) => PhaseOf(trace[j]) \in {2, 6}

\* C13 as stated: in each of the three routines the driver calls of a run
\* follow the order arm connect, positioning move, hand connect, hand
\* opening, choreography, cleanup; no phase is entered before the previous
\* one succeeded; and no arm move is issued between the hand's opening and
\* cleanup.
C13_PhaseOrder == PhasesInOrder /\ NoArmMoveInChoreography

FfoSteps == {"open", "final_open", "cleanup_open"}
IsFfoCmd(i, s) == IsHandCmd(trace[i]) /\ trace[i].step = s

\* trace[a..b] is what one invocation of _force_full_open (note test and
\* practice routine) has issued: a maximal run of hand commands of one call site
FfoRun(a, b) ==
  /\ routine # "startup"
  /\ a <= b
  /\ trace[a].step \in FfoSteps
  /\ \A i \in a..b : IsFfoCmd(i, trace[a].step)
  /\ (a = 1 \/ ~IsFfoCmd(a - 1, trace[a].step))
  /\ (b = Len(trace) \/ ~IsFfoCmd(b + 1, trace[a].step))

\* the invocation is still running
FfoInProgress(a, b) ==
  b = Len(trace) /\ pc \in {"ffo2", "ffo3"} /\ ffo_site = trace[a].step
\* the invocation was left by a KeyboardInterrupt
FfoInterrupted(b) == b < Len(trace) /\ IsInterrupt(trace[b + 1])

\* C14 as stated, on runs without KeyboardInterrupt: every invocation of
\* _force_full_open that has returned has issued the whole sequence, 2
\* all-motor commands and |finger_indices| single-motor commands at
\* open_value, in the order all, each finger, all.
C14_AlwaysWholeSequence ==
  NoInterrupt
  => \A a, b \in Idx :
       (FfoRun(a, b) /\ ~FfoInProgress(a, b))
       => AskedSeq(SubSeq(trace, a, b)) = FullOpenAsked(finger_indices)

\* C14 amended: every invocation of _force_full_open issues the commands of
\* the sequence all-motors, each finger of finger_indices in its order,
\* all-motors, all at open_value, in that order and up to and including the
\* first rejected one: the whole sequence (2 all-motor and |finger_indices|
\* single-motor commands) when every command is accepted and no
\* KeyboardInterrupt arrives, nothing after a rejected command.
C14_SequenceUpToFirstRejection ==
  \A a, b \in Idx :
    FfoRun(a, b)
    => LET t == SubSeq(trace, a, b)
           n == Len(finger_indices) + 2
       IN  /\ Len(t) <= n
           /\ AskedSeq(t) = SubSeq(FullOpenAsked(finger_indices), 1, Len(t))
           /\ \A i \in 1..(Len(t) - 1) : t[i].ok
           /\ (Len(t) < n /\ t[Len(t)].ok)
              => FfoInProgress(a, b) \/ FfoInterrupted(b)

C14_Witness ==
  /\ Terminated /\ NoInterrupt /\ routine = "practice"
  /\ \E a, b \in Idx :
       /\ FfoRun(a, b) /\ trace[a].step = "open"
       /\ b - a + 1 = Len(finger_indices) + 2
  /\ \E a, b \in Idx :
       /\ FfoRun(a, b) /\ trace[a].step = "cleanup_open"
       /\ b - a + 1 < Len(finger_indices) + 2 /\ ~trace[b].ok

\* the choreography of the run has begun at position j
FirstChoreography(j) ==
  /\ j \in DriverCalls /\ PhaseOf(trace[j]) = 5
  /\ \A i \in 1..(j - 1) : PhaseOf(trace[i]) # 5

OpeningCmds(j) ==
  SelectSeq(SubSeq(trace, 1, j - 1), LAMBDA e : IsHandCmd(e) /\ e.step = "open")

\* C15 as stated: in each of the three routines, when the choreography
\* begins, the hand commands issued since hand.connect are the three-step
\* fully-open sequence: all-motors, each finger of finger_indices, all-motors,
\* at open_value.
C15_OpeningIsThreeStep ==
  \A j \in Idx :
    FirstChoreography(j)
    => AskedSeq(OpeningCmds(j)) = FullOpenAsked(finger_indices)

\* how often motor f stands in the finger order
Multiplicity(f) ==
  Cardinality({i \in 1..Len(finger_indices) : finger_indices[i] = f})

IsLoopCmd(e) == LoopPress(e) \/ LoopRelease(e)
PressOf(f) == {i \in Idx : LoopPress(trace[i]) /\ trace[i].motor = f}
ReleaseOf(f) == {i \in Idx : LoopRelease(trace[i]) /\ trace[i].motor = f}

OpenValues == {0, 1, 500, 1000}
CloseValues == {0, 2, 120, 125, 1000}
DownFractions == {-50, 0, 1, 25, 40, 50, 99, 100, 150}

\* strike_value before its assignment
NoStrike == -1

\* run_continuous_practice entered with one loop asked for, on hardware that
\* accepts every command and with no KeyboardInterrupt to come
StrikeInit ==
  /\ routine = "practice"
  /\ return_home = FALSE
  /\ loops = 1
  /\ finger_text = <<"3", "2", "1", "0">>
  /\ finger_indices = ParseFingerIndices(finger_text)
  /\ open_value \in OpenValues
  /\ close_reference \in CloseValues
  /\ down_fraction \in DownFractions
  /\ strike_value = NoStrike
  /\ pc = "compute_strike"
  /\ MainIdle
  /\ CalIdle
  /\ LocalsInit
  /\ rejects = MaxRejects /\ interrupts = MaxInterrupts

\* strike_value = _compute_strike_value(open_value, close_reference, down_fraction)
ComputeStrike ==
  /\ pc = "compute_strike"
  /\ strike_value' = ComputeStrikeValue(open_value, close_reference, down_fraction)
  /\ pc' = "arm_connect"
  /\ UNCHANGED <<routine, return_home, loops, finger_indices, open_value,
                 close_reference, down_fraction, finger_text, mainv, loadv, calv, flags,
                 iter, ret, ffo, cyc, result, drv, motors, trace, rejects,
                 interrupts>>

StrikeNext ==
  \/ ComputeStrike
  \/ ArmConnect \/ ArmStore \/ ArmPosition \/ HandConnect \/ HandStore \/ HandOpen
  \/ Ffo1 \/ Ffo2 \/ Ffo3 \/ FfoReturn
  \/ LoopTop \/ Press \/ Release
  \/ FinHandOpen \/ FinHandDisc \/ FinHome \/ FinArmDisc

StrikeSpec == StrikeInit /\ [][StrikeNext]_vars

StrikeComputed == pc # "compute_strike"

\* the inputs of scenario A
ScenarioA == open_value = 1000 /\ close_reference = 120 /\ down_fraction = 40

\* C17 as stated: the strike value computed for open_value = 1000,
\* close_reference = 120, down_fraction = 0.40 is 472.
C17_StrikeIs472 == (ScenarioA /\ StrikeComputed) => strike_value = 472

\* C17 amended: the strike value computed for open_value = 1000,
\* close_reference = 120, down_fraction = 0.40 is 648 (1000 - 0.40 * 880),
\* and that is the value of every press.
C17_StrikeIs648 ==
  (ScenarioA /\ StrikeComputed)
  => /\ strike_value = 648
     /\ \A i \in Idx : LoopPress(trace[i]) => trace[i].val = 648

C17_Witness ==
  /\ ScenarioA /\ StrikeComputed /\ Terminated
  /\ strike_value = 648
  /\ Count(LoopPress) = Len(finger_indices)

Abs(x) == IF x >= 0 THEN x ELSE -x

\* C18: for the open values, close references and down fractions drawn: the
\* strike value computed is open_value when down_fraction <= 0,
\* close_reference when down_fraction >= 1, and otherwise an integer nearest
\* to open_value + (close_reference - open_value) * down_fraction; it lies
\* between open_value and close_reference inclusive; once computed it is not
\* assigned again, and every press of the run carries it.
C18_StrikeValue ==
  /\ [](StrikeComputed
        => /\ down_fraction <= 0 => strike_value = open_value
           /\ down_fraction >= 100 => strike_value = close_reference
           /\ (down_fraction > 0 /\ down_fraction < 100)
              => Abs(100 * strike_value
                     - (100 * open_value
                        + (close_reference - open_value) * down_fraction)) <= 50
           /\ strike_value >= Min2(open_value, close_reference)
           /\ strike_value <= Max2(open_value, close_reference)
           /\ \A i \in Idx : LoopPress(trace[i]) => trace[i].val = strike_value)
  /\ [][StrikeComputed => strike_value' = strike_value]_vars

\* a tie (562.5), rounded to the even neighbour, then pressed four times
C18_Witness ==
  /\ open_value = 1000 /\ close_reference = 125 /\ down_fraction = 50
  /\ Terminated
  /\ strike_value = 562
  /\ Count(LoopPress) = Len(finger_indices)
  /\ \A i \in Idx : LoopPress(trace[i]) => trace[i].val = 562

\* the hand commands of n passes of the loop over finger order F: for each
\* pass and each finger, the press at strike_value then the release at
\* open_value
LoopAsked(n, F) ==
  [k \in 1..(2 * n * Len(F)) |->
     LET pos == (k - 1) % (2 * Len(F))
         f == F[(pos \div 2) + 1]
     IN  IF pos % 2 = 0
         THEN <<"hand.move_single_motor", NoPose, f, strike_value>>
         ELSE <<"hand.move_single_motor", NoPose, f, open_value>>]

LoopRejected(e) == IsLoopCmd(e) /\ ~e.ok

\* C19: in the practice routine, (a) with max_loops = n > 0, once the
\* routine has returned with every command accepted and no
\* KeyboardInterrupt, the loop's hand commands are exactly n passes of
\* press at strike_value / release at open_value over the fingers in their
\* order and the routine returned success, the loop never having begun a
\* pass beyond the n-th; (b) with max_loops <= 0 the routine returns success
\* only after a KeyboardInterrupt, and the loop, once it has issued a
\* command, is left only by a rejected command of the loop or a
\* KeyboardInterrupt inside it.
C19_LoopTrace ==
  routine = "practice"
  => /\ loops > 0 => loop_idx <= loops
     /\ (loops > 0 /\ Terminated /\ NoInterrupt /\ rejects = 0
           /\ Occurs(HandConnectOk))
        => /\ AskedSeq(SelectSeq(trace, IsLoopCmd)) = LoopAsked(loops, finger_indices)
           /\ result = "true"
     /\ loops <= 0
        => /\ result = "true" => Occurs(IsInterrupt)
           /\ (Occurs(IsLoopCmd) /\ pc \notin LoopPcs)
              => Occurs(LoopRejected) \/ Occurs(InterruptInLoop)

C19_Witness ==
  /\ routine = "practice" /\ loops = 2 /\ Terminated /\ NoInterrupt /\ rejects = 0
  /\ finger_indices = <<0, 1, 2, 3>>
  /\ result = "true"
  /\ Len(SelectSeq(trace, IsLoopCmd)) = 2 * 2 * Len(finger_indices)

\* the unbounded loop still going after MaxIter passes
C19_UnboundedWitness ==
  /\ routine = "practice" /\ loops = -1 /\ pc = "loop_top" /\ loop_idx = MaxIter
  /\ NoInterrupt /\ rejects = 0

(* ====================================================================== *)
(* main(): the --finger-indices text on its way to the routine            *)
(* ====================================================================== *)
\* the texts drawn as inputs: 1 to MaxParts parts between commas
FingerTextInputs == UNION {[1..n -> PartAlphabet] : n \in 1..MaxParts}

\* finger_indices before main has parsed the text
NotParsed == <<>>

\* the pose texts drawn as inputs: 1 to MaxPoseParts parts between commas
PoseTextInputs == UNION {[1..n -> PoseAlphabet] : n \in 1..MaxPoseParts}

\* main() of the practice routine entered with one of its three texts drawn
\* and the two others at their defaults
ParseInit ==
  /\ routine = "practice"
  /\ return_home = FALSE
  /\ loops = 0
  /\ \/ /\ finger_text \in FingerTextInputs
        /\ center_text = CenterDefaultText /\ home_text = HomeDefaultText
     \/ /\ center_text \in PoseTextInputs
        /\ finger_text = <<"3", "2", "1", "0">> /\ home_text = HomeDefaultText
     \/ /\ home_text \in PoseTextInputs
        /\ finger_text = <<"3", "2", "1", "0">> /\ center_text = CenterDefaultText
  /\ finger_indices = NotParsed
  /\ center_joints = NotParsed /\ home_joints = NotParsed
  /\ skip_precheck = TRUE /\ force = FALSE /\ precheck_ok = TRUE
  /\ exit_code = "none"
  /\ LoadIdle
  /\ open_value = HAND_OPEN
  /\ close_reference = HAND_CLOSE_REF
  /\ down_fraction = DOWN_FRACTION_PCT
  /\ strike_value = NoStrike
  /\ pc = "parse_args"
  /\ CalIdle
  /\ LocalsInit
  /\ rejects = 0 /\ interrupts = 0

\* the try block of main raises ValueError: the calibration parses its home
\* pose, the startup test its test and home poses, the note test and the
\* practice their center pose, home pose and finger order
MainParseRaises ==
  CASE routine = "calibration" -> ParseJointTargetsRaises(home_text)
    [] routine = "startup" ->
         ParseJointTargetsRaises(center_text) \/ ParseJointTargetsRaises(home_text)
    [] OTHER ->
         \/ ParseJointTargetsRaises(center_text)
         \/ ParseJointTargetsRaises(home_text)
         \/ ParseFingerIndicesRaises(finger_text)

\* try: center_joints = _parse_joint_targets(args.center_joints)
\*      home_joints = _parse_joint_targets(args.home_joints)
\*      finger_indices = _parse_finger_indices(args.finger_indices)
\* except ValueError: return 2
\* if args.use_calibration_center:
\*     center_joints = _load_center_from_report(center_joints)
MainParse ==
  /\ pc = "parse_args"
  /\ IF MainParseRaises
     THEN /\ pc' = "done"
          /\ exit_code' = "2"
          /\ UNCHANGED <<finger_indices, center_joints, home_joints>>
     ELSE IF routine \in {"note", "practice"} /\ use_calibration_center
             /\ LoadLeaves(report_file)
     THEN /\ pc' = "done"
          /\ exit_code' = "raised"
          /\ home_joints' = ParseJointTargets(home_text)
          /\ center_joints' = ParseJointTargets(center_text)
          /\ finger_indices' = ParseFingerIndices(finger_text)
     ELSE /\ pc' = (IF routine = "calibration" THEN "cal_ping" ELSE "precheck")
          /\ home_joints' = ParseJointTargets(home_text)
          /\ center_joints' =
               (IF routine = "calibration" THEN center_joints
                ELSE IF routine \in {"note", "practice"} /\ use_calibration_center
                THEN LoadCenterFromReport(report_file, ParseJointTargets(center_text))
                ELSE ParseJointTargets(center_text))
          /\ finger_indices' = (IF routine \in {"note", "practice"}
                                THEN ParseFingerIndices(finger_text)
                                ELSE finger_indices)
          /\ UNCHANGED exit_code
  /\ UNCHANGED <<routine, return_home, loops, strike_value, open_value,
                 close_reference, down_fraction, finger_text, center_text,
                 home_text, skip_precheck, force, precheck_ok, loadv, calv, result,
                 flags, iter, ret, ffo, cyc, drv, motors, trace, rejects,
                 interrupts>>

\* main enters the routine: the startup test connects at once, the note test
\* and the practice compute the strike value first
RoutineEntry == IF routine = "startup" THEN "arm_connect" ELSE "compute_strike"

\* precheck_ok = True
\* if not args.skip_precheck:
\*     precheck_ok = _run_precheck(...)
\*     if not precheck_ok and not args.force: return 1
MainPrecheck ==
  /\ pc = "precheck"
  /\ \E ok \in (IF skip_precheck THEN {TRUE} ELSE BOOLEAN) :
       /\ precheck_ok' = ok
       /\ IF ~ok /\ ~force
          THEN pc' = "done" /\ exit_code' = "1"
          ELSE pc' = RoutineEntry /\ UNCHANGED exit_code
  /\ UNCHANGED <<routine, return_home, loops, finger_indices, strike_value,
                 open_value, close_reference, down_fraction, finger_text,
                 center_text, home_text, center_joints, home_joints,
                 skip_precheck, force, loadv, calv, result, flags, iter, ret, ffo,
                 cyc,
                 drv, motors, trace, rejects, interrupts>>

\* main parses and prechecks, then run_continuous_practice is entered and
\* computes the strike value
ParseNext == MainParse \/ MainPrecheck \/ ComputeStrike

ParseSpec == ParseInit /\ [][ParseNext]_vars

\* the finger order has reached the routine
ReachedRoutine == pc \notin {"parse_args", "precheck", "done"}

\* the motors of the hand that are no finger of the default order: the thumb
ThumbMotors ==
  (0..(MOTOR_COUNT - 1))
  \ {DEFAULT_FINGER_INDICES[i] : i \in 1..Len(DEFAULT_FINGER_INDICES)}

\* what _parse_finger_indices does check: 4 indices, each in [0,5]
FourInRange ==
  ReachedRoutine
  => /\ Len(finger_indices) = 4
     /\ \A i \in 1..Len(finger_indices) : finger_indices[i] \in 0..5

\* C20 as stated: every finger order that reaches the routine from the
\* command line consists of exactly 4 pairwise-distinct motor indices in
\* [0,5] and does not contain a thumb motor.
C20_AcceptedFingerSetValid ==
  ReachedRoutine
  => /\ Len(finger_indices) = 4
     /\ \A i \in 1..Len(finger_indices) : finger_indices[i] \in 0..5
     /\ \A i, j \in 1..Len(finger_indices) :
          i # j => finger_indices[i] # finger_indices[j]
     /\ \A i \in 1..Len(finger_indices) : finger_indices[i] \notin ThumbMotors

(* ---------------------------------------------------------------------- *)
(* C21                                                                    *)
(* ---------------------------------------------------------------------- *)
\* the text is exactly 4 comma-separated integers, each in [0,5]: no part
\* between two commas is empty and none is missing or left over
ExactlyFourIntegers(text) ==
  /\ Len(text) = 4
  /\ \A i \in 1..Len(text) :
       /\ Strip(text[i]) \in DOMAIN IntLiterals
       /\ IntLiterals[Strip(text[i])] \in 0..5

\* the text is exactly 6 comma-separated numbers
ExactlySixNumbers(text) ==
  /\ Len(text) = 6
  /\ \A i \in 1..Len(text) : Strip(text[i]) \in DOMAIN FloatLiterals

\* main has parsed its three texts
Parsed == pc # "parse_args"

\* what the parsers do reject: a text whose non-empty parts are not 4
\* integers in [0,5] (finger order) or not 6 numbers (poses)
NonEmptyPartsChecked ==
  (Parsed /\ exit_code # "2")
  => /\ Len(StrippedParts(finger_text)) = 4
     /\ Len(StrippedParts(center_text)) = 6
     /\ Len(StrippedParts(home_text)) = 6
     /\ Len(finger_indices) = 4 /\ Len(center_joints) = 6 /\ Len(home_joints) = 6

\* C21 as stated: the finger order parser rejects every text that is not
\* exactly 4 comma-separated integers in [0,5] and the pose parser rejects
\* every text that is not exactly 6 comma-separated numbers, texts with an
\* empty field between commas or a trailing comma included: main returns 2
\* for every such text.
C21_MalformedTextRejected ==
  (/\ Parsed
   /\ \/ ~ExactlyFourIntegers(finger_text)
      \/ ~ExactlySixNumbers(center_text)
      \/ ~ExactlySixNumbers(home_text))
  => exit_code = "2"

(* ====================================================================== *)
(* The drivers called directly: XArmDriver.move_joints,                    *)
(* InspireHandDriver.move_single_motor and set_all_motors with arguments   *)
(* of any length, index and value                                          *)
(* ====================================================================== *)
\* poses handed to move_joints: 5, 6 and 7 angles
DriverPoses ==
  {<<0, 0, 0, 0, 90>>, DEFAULT_HOME_JOINTS_DEG, <<0, 0, 0, 0, 90, -45, 0>>}
\* motor indices handed to move_single_motor
DriverIndices == {-1, 0, 5, 6}
\* target values handed to the hand driver
DriverValues == {-1, 0, 1000, 65536}

\* both drivers constructed, each connected or not
DriverInit ==
  /\ routine = "practice"
  /\ return_home = FALSE
  /\ loops = 0
  /\ finger_text = <<"3", "2", "1", "0">>
  /\ finger_indices = ParseFingerIndices(finger_text)
  /\ open_value = HAND_OPEN
  /\ close_reference = HAND_CLOSE_REF
  /\ down_fraction = DOWN_FRACTION_PCT
  /\ strike_value = NoStrike
  /\ pc = "driver"
  /\ MainIdle
  /\ CalIdle
  /\ arm_ok = FALSE /\ hand_ok = FALSE /\ test_ok = FALSE
  /\ completed = FALSE /\ arm_home_reached = FALSE /\ interrupted = FALSE
  /\ loop_idx = 0 /\ fidx = 1 /\ ret = FALSE
  /\ ffo_site = "none" /\ ffo_ok = FALSE
  /\ cyc_idx = 0 /\ cyc_step = 1 /\ all_ok = TRUE
  /\ result = "none"
  /\ arm_api \in BOOLEAN /\ hand_instrument \in BOOLEAN
  /\ motors = [i \in 1..MOTOR_COUNT |-> -1]
  /\ trace = <<>>
  /\ rejects = 0 /\ interrupts = MaxInterrupts

\* what a driver call leaves alone
DriverFrame ==
  UNCHANGED <<args, pc, flags, iter, ret, ffo, cyc, result, interrupts>>

\* arm.move_joints(pose)
DriverMoveJoints ==
  /\ pc = "driver" /\ Len(trace) < MaxCalls
  /\ \E pose \in DriverPoses, hwok \in HwOutcomes : DoArmMove(pose, "driver", hwok)
  /\ DriverFrame

\* hand.move_single_motor(idx, v)
DriverMoveSingleMotor ==
  /\ pc = "driver" /\ Len(trace) < MaxCalls
  /\ \E idx \in DriverIndices, v \in DriverValues, hwok \in HwOutcomes :
       DoHandSingle(idx, v, "driver", hwok)
  /\ DriverFrame

\* hand.set_all_motors(v)
DriverSetAllMotors ==
  /\ pc = "driver" /\ Len(trace) < MaxCalls
  /\ \E v \in DriverValues, hwok \in HwOutcomes : DoHandAll(v, "driver", hwok)
  /\ DriverFrame

DriverNext == DriverMoveJoints \/ DriverMoveSingleMotor \/ DriverSetAllMotors

DriverSpec == DriverInit /\ [][DriverNext]_vars

(* ---------------------------------------------------------------------- *)
(* C23                                                                    *)
(* ---------------------------------------------------------------------- *)
\* the call hands the driver a pose that has not 6 angles
BadPoseLength(c) == c.op = "arm.move_joints" /\ Len(c.pose) # JOINT_COUNT
\* the call hands the driver a motor index outside [0,5]
BadMotorIndex(c) == c.op = "hand.move_single_motor" /\ c.motor \notin 0..5
\* the call hands the driver a motor value outside [0,65535]
BadMotorValue(c) ==
  c.op \in {"hand.move_single_motor", "hand.set_all_motors"} /\ c.val \notin 0..65535

\* the driver returned false without a transport-level call
RejectedBeforeTransport(c) == ~c.ok /\ ~c.hw

\* what the drivers do check: the pose length and the motor index
LengthAndIndexChecked ==
  \A i \in 1..Len(trace) :
    (BadPoseLength(trace[i]) \/ BadMotorIndex(trace[i]))
    => RejectedBeforeTransport(trace[i])

\* a value outside [0,65535] reaches the transport reduced modulo 65536
ValueWrittenMasked ==
  \A i \in 1..Len(trace) :
    (BadMotorValue(trace[i]) /\ trace[i].hw)
    => \E m \in 1..MOTOR_COUNT :
         trace[i].regs[m] = trace[i].val % 65536 /\ trace[i].regs[m] # trace[i].val

\* C23 as stated: a driver command with a pose of length other than 6, a
\* motor index outside [0,5] or a motor value outside [0,65535] returns
\* false before any transport-level call is made, so the actuators keep
\* their state.
C23_InvalidCommandRejected ==
  \A i \in 1..Len(trace) :
    (BadPoseLength(trace[i]) \/ BadMotorIndex(trace[i]) \/ BadMotorValue(trace[i]))
    => RejectedBeforeTransport(trace[i])

(* ====================================================================== *)
(* play_center_calibration.py                                              *)
(* ====================================================================== *)
\* min(values) of a non-empty list
SeqMin(values) ==
  CHOOSE m \in {values[i] : i \in 1..Len(values)} :
    \A i \in 1..Len(values) : m <= values[i]

\* _pose_with_j1_offset: pose[0] = pose[0] + delta_j1_deg
PoseWithJ1Offset(base_pose, delta) == [base_pose EXCEPT ![1] = @ + delta]

Mut_JointMargin_NoClamp(angle, lower, upper) ==
  IF upper <= lower THEN 0
  ELSE (2 * SCALE * Min2(10 * angle - lower, upper - 10 * angle)) \div (upper - lower)

\* one joint of _joint_margin_score: 0.0 for a limit of no width, else
\* max(0.0, min(1.0, 2.0 * distance_to_edge / (upper - lower)))
JointMargin(angle, lower, upper) ==
  IF upper <= lower THEN 0
  ELSE Max2(0, Min2(SCALE, (2 * SCALE * Min2(10 * angle - lower, upper - 10 * angle))
                             \div (upper - lower)))

\* _joint_margin_score: zip(angles_deg, JOINT_LIMITS_DEG), min(margins)
JointMarginScore(angles, limits) ==
  LET n == Min2(Len(angles), Len(limits))
      margins == [i \in 1..n |-> JointMargin(angles[i], limits[i][1], limits[i][2])]
  IN  IF n > 0 THEN SeqMin(margins) ELSE 0

Mut_CandidateMargin_CenterOnly(center, delta, limits) == JointMarginScore(center, limits)

\* _candidate_margin: min over center, left = -abs(delta), right = +abs(delta)
CandidateMargin(center, delta, limits) ==
  LET left == PoseWithJ1Offset(center, 0 - Abs(delta))
      right == PoseWithJ1Offset(center, Abs(delta))
  IN  Min2(JointMarginScore(center, limits),
           Min2(JointMarginScore(left, limits), JointMarginScore(right, limits)))

\* the candidate under evaluation
CandPose == CANDIDATE_CENTERS[cand]
CandName == CANDIDATE_NAMES[cand]

\* what no step of the calibration changes after main has parsed its options
CalFrame ==
  UNCHANGED <<routine, return_home, loops, finger_indices, strike_value, open_value,
              close_reference, down_fraction, finger_text, center_text, home_text,
              center_joints, home_joints, skip_precheck, force, precheck_ok, loadv,
              sweep_delta, cycles, execute, move_to_best, joint_limits, flags,
              iter, ret, ffo, cyc>>

\* margin = _candidate_margin(pose, args.sweep_delta_j1), and the entry into
\* _run_sweep_benchmark
CalMargin ==
  /\ pc = "cal_margin"
  /\ margin' = CandidateMargin(CandPose, sweep_delta, joint_limits)
  /\ sweep_moves' = <<>>
  /\ segment_times' = <<>>
  /\ bench' = NoBench
  /\ pc' = "cal_sweep"
  /\ CalFrame
  /\ UNCHANGED <<cand, results, best_result, report, slow, result, exit_code, drv,
                 motors, trace, rejects, interrupts>>

(* ---- _candidate_margin over drawn candidates, deltas and limit tables -- *)
\* --sweep-delta-j1 values: none, the default, a negative one, one that
\* reaches the first joint's limit exactly, one near it and one beyond it
MarginDeltas == {0, 10, -10, 350, -360, 400}

\* limit tables: the program's, one whose first joint has no width, one whose
\* third joint has its bounds exchanged
LimitTables ==
  {JOINT_LIMITS_DEG,
   [JOINT_LIMITS_DEG EXCEPT ![1] = <<0, 0>>],
   [JOINT_LIMITS_DEG EXCEPT ![3] = <<35, -2420>>]}

MarginInit ==
  /\ routine = "calibration"
  /\ return_home = FALSE
  /\ loops = 0
  /\ finger_text = <<"3", "2", "1", "0">>
  /\ finger_indices = ParseFingerIndices(finger_text)
  /\ open_value = HAND_OPEN
  /\ close_reference = HAND_CLOSE_REF
  /\ down_fraction = DOWN_FRACTION_PCT
  /\ strike_value = NoStrike
  /\ MainIdle
  /\ sweep_delta \in MarginDeltas
  /\ cycles = 3 /\ execute = TRUE /\ move_to_best = FALSE
  /\ joint_limits \in LimitTables
  /\ cand \in 1..Len(CANDIDATE_CENTERS)
  /\ margin = 0
  /\ sweep_moves = <<>> /\ segment_times = <<>> /\ bench = NoBench
  /\ results = <<>> /\ best_result = NoResult /\ report = NoReport
  /\ slow = 0
  /\ pc = "cal_margin"
  /\ LocalsInit
  /\ rejects = 0 /\ interrupts = 0

MarginNext == CalMargin

MarginSpec == MarginInit /\ [][MarginNext]_vars

(* ---------------------------------------------------------------------- *)
(* C25                                                                    *)
(* ---------------------------------------------------------------------- *)
\* the margin of the candidate has been computed
MarginComputed == pc = "cal_sweep"

\* the three poses of a candidate's sweep
SweepPoses ==
  {CandPose, PoseWithJ1Offset(CandPose, Abs(sweep_delta)),
   PoseWithJ1Offset(CandPose, 0 - Abs(sweep_delta))}

\* some joint has a limit range of zero or negative width
SomeJointWithoutWidth ==
  \E j \in 1..Len(joint_limits) : joint_limits[j][2] <= joint_limits[j][1]

\* m is the least of the values f[x], x in S
IsLeast(m, S, f(_)) == (\A x \in S : m <= f(x)) /\ (\E x \in S : m = f(x))

\* C25: the joint-margin score of every pose of the sweep and the candidate
\* margin lie in [0,1] (0..SCALE thousandths); a joint whose limit range has
\* zero or negative width forces the margin to 0; the candidate margin is the
\* minimum of the per-pose margins of the center pose and of the poses offset
\* by +|delta| and -|delta| on the first joint, and each per-pose margin is
\* the minimum over its joints.
C25_MarginInUnitRange ==
  MarginComputed
  => /\ margin \in 0..SCALE
     /\ \A p \in SweepPoses : JointMarginScore(p, joint_limits) \in 0..SCALE
     /\ SomeJointWithoutWidth => margin = 0
     /\ LET poseMargin(p) == JointMarginScore(p, joint_limits)
        IN  IsLeast(margin, SweepPoses, poseMargin)
     /\ \A p \in SweepPoses :
          LET jointMargin(j) ==
                JointMargin(p[j], joint_limits[j][1], joint_limits[j][2])
          IN  IsLeast(JointMarginScore(p, joint_limits), 1..JOINT_COUNT, jointMargin)

\* a margin of 0 forced by a joint without width, where the program's own
\* limit table gives a positive margin
C25_Witness ==
  /\ MarginComputed
  /\ SomeJointWithoutWidth
  /\ margin = 0
  /\ CandidateMargin(CandPose, sweep_delta, JOINT_LIMITS_DEG) > 0

\* a margin strictly between 0 and 1 set by an offset pose, not by the center
C25_OffsetWitness ==
  /\ MarginComputed
  /\ margin > 0 /\ margin < SCALE
  /\ margin < JointMarginScore(CandPose, joint_limits)

(* ====================================================================== *)
(* play_center_calibration.py: main, _run_sweep_benchmark, _score_results  *)
(* ====================================================================== *)
\* elapsed = time.perf_counter() - t0 of a timed move, in seconds
SegmentDurations == {1, 2}
\* the short duration
FastDuration == 1
\* what the clock may give for the next timed move
DurationOutcomes == IF slow < MaxSlow THEN SegmentDurations ELSE {FastDuration}

\* math.inf in a float field
INF == 2000000000

\* for _ in range(cycles): the number of iterations
CycleCount == Max2(cycles, 0)

Mut_SweepLength_NoFinalCenter == 4 + 3 * CycleCount - 1

\* the number of moves _run_sweep_benchmark issues when none is rejected
SweepLength == 4 + 3 * CycleCount

\* left_pose, right_pose
LeftPose == PoseWithJ1Offset(CandPose, 0 - Abs(sweep_delta))
RightPose == PoseWithJ1Offset(CandPose, Abs(sweep_delta))

Mut_SweepPose_RightFirst(k) ==
  IF k <= 4
  THEN <<CandPose, RightPose, LeftPose, CandPose>>[k]
  ELSE <<RightPose, LeftPose, CandPose>>[((k - 5) % 3) + 1]

\* the pose of the k-th move: (center, left, right, center), then
\* (left, right, center) per cycle
SweepPose(k) ==
  IF k <= 4
  THEN <<CandPose, LeftPose, RightPose, CandPose>>[k]
  ELSE <<LeftPose, RightPose, CandPose>>[((k - 5) % 3) + 1]

Mut_Timed_FromCenter(k) == k > 3

\* the k-th move is timed
Timed(k) == k > 4

\* one arm.move_joints of _run_sweep_benchmark, with the three ways it goes
\* on: a rejected move returns, the last move returns, any other continues
CalSweepMove ==
  /\ pc = "cal_sweep"
  /\ LET k == Len(sweep_moves) + 1
     IN  \E hwok \in BOOLEAN, t \in (IF Timed(k) THEN DurationOutcomes ELSE {FastDuration}) :
           LET ok == XArmMoveJoints(SweepPose(k), hwok)
           IN  /\ sweep_moves' = Append(sweep_moves,
                                        [pose |-> SweepPose(k), ok |-> ok, timed |-> Timed(k)])
               /\ IF ~ok
                  THEN /\ bench' = [ok |-> FALSE,
                                    reason |-> IF Timed(k) THEN "sweep move failed"
                                               ELSE "warmup move failed"]
                       /\ pc' = "cal_record"
                       /\ UNCHANGED <<segment_times, slow>>
                  ELSE /\ segment_times' = IF Timed(k) THEN Append(segment_times, t)
                                           ELSE segment_times
                       /\ slow' = IF Timed(k) /\ t # FastDuration THEN slow + 1 ELSE slow
                       /\ IF k >= SweepLength
                          THEN bench' = [ok |-> TRUE, reason |-> "ok"] /\ pc' = "cal_record"
                          ELSE UNCHANGED <<bench, pc>>
  /\ CalFrame
  /\ UNCHANGED <<cand, margin, results, best_result, report, result, exit_code, drv,
                 motors, trace, rejects, interrupts>>

RECURSIVE SeqSum(_)
SeqSum(values) ==
  IF values = <<>> THEN 0 ELSE values[1] + SeqSum(Tail(values))

RECURSIVE SeqSumSq(_)
SeqSumSq(values) ==
  IF values = <<>> THEN 0 ELSE values[1] * values[1] + SeqSumSq(Tail(values))

\* the integer part of the square root of x, searched in lo..hi
RECURSIVE IsqrtIn(_, _, _)
IsqrtIn(x, lo, hi) ==
  IF lo >= hi THEN lo
  ELSE LET mid == (lo + hi + 1) \div 2
       IN  IF mid * mid <= x THEN IsqrtIn(x, mid, hi) ELSE IsqrtIn(x, lo, mid - 1)
Isqrt(x) == IsqrtIn(x, 0, 40000)

\* n * sum(t^2) - sum(t)^2: n^2 times the population variance
SpreadOf(times) == Len(times) * SeqSumSq(times) - SeqSum(times) * SeqSum(times)

\* statistics.mean(segment_times)
MeanOf(times) == (SCALE * SeqSum(times)) \div Len(times)
\* statistics.pstdev(segment_times) if len(segment_times) > 1 else 0.0
StdOf(times) ==
  IF Len(times) > 1 THEN Isqrt(SCALE * SCALE * SpreadOf(times)) \div Len(times) ELSE 0
\* speed_raw = 1.0 / max(mean_t, 1e-6)
SpeedRawOf(times) == (SCALE * Len(times)) \div SeqSum(times)
\* cv = std_t / max(mean_t, 1e-6); smooth_raw = 1.0 / max(cv, 1e-6)
SmoothRawOf(times) ==
  IF Len(times) <= 1 \/ SpreadOf(times) = 0 THEN RAW_CEILING
  ELSE Isqrt((SCALE * SCALE * SeqSum(times) * SeqSum(times)) \div SpreadOf(times))

Mut_Measured_AnyTimes == segment_times # <<>>

\* if ok and segment_times:
Measured == bench.ok /\ segment_times # <<>>

\* the CandidateResult appended for the candidate under evaluation
CandidateResult ==
  [name |-> CandName,
   center_pose_deg |-> CandPose,
   ok |-> bench.ok,
   reason |-> bench.reason,
   segment_times_sec |-> segment_times,
   mean_segment_time_sec |-> IF Measured THEN MeanOf(segment_times) ELSE INF,
   std_segment_time_sec |-> IF Measured THEN StdOf(segment_times) ELSE INF,
   speed_raw |-> IF Measured THEN SpeedRawOf(segment_times) ELSE 0,
   smoothness_raw |-> IF Measured THEN SmoothRawOf(segment_times) ELSE 0,
   margin_raw |-> margin,
   total_score |-> 0]

\* results.append(CandidateResult(...)), then the next candidate or the scoring
CalRecord ==
  /\ pc = "cal_record"
  /\ results' = Append(results, CandidateResult)
  /\ IF cand < Len(CANDIDATE_CENTERS)
     THEN cand' = cand + 1 /\ pc' = "cal_margin"
     ELSE UNCHANGED cand /\ pc' = "cal_score"
  /\ CalFrame
  /\ UNCHANGED <<margin, sweep_moves, segment_times, bench, best_result, report, slow,
                 result, exit_code, drv, motors, trace, rejects, interrupts>>

\* valid = [r for r in results if r.ok], as positions
ValidOf(rs) == {i \in 1..Len(rs) : rs[i].ok}

\* max(...) of a non-empty set
SetMax(S) == CHOOSE m \in S : \A x \in S : x <= m

Mut_OrOne_Identity(m) == m

\* <max> or 1.0
OrOne(m) == IF m = 0 THEN SCALE ELSE m

\* raw / max, in thousandths
Normalized(raw, max) ==
  IF raw = max THEN SCALE
  ELSE IF max > 1000000 THEN raw \div (max \div SCALE)
  ELSE (raw * SCALE) \div max

Mut_TotalScore_SpeedOnly(speed_norm, smooth_norm, margin_norm) == speed_norm

\* 0.50 * speed_norm + 0.35 * smooth_norm + 0.15 * margin_norm
TotalScore(speed_norm, smooth_norm, margin_norm) ==
  (500 * speed_norm + 350 * smooth_norm + 150 * margin_norm) \div SCALE

\* the three normalized sub-scores _score_results computes for a valid result
NormsOf(rs, i) ==
  LET valid == ValidOf(rs)
      max_speed == OrOne(SetMax({rs[j].speed_raw : j \in valid}))
      max_smooth == OrOne(SetMax({rs[j].smoothness_raw : j \in valid}))
      max_margin == OrOne(SetMax({rs[j].margin_raw : j \in valid}))
  IN  [speed |-> Normalized(rs[i].speed_raw, max_speed),
       smooth |-> Normalized(rs[i].smoothness_raw, max_smooth),
       margin |-> Normalized(rs[i].margin_raw, max_margin)]

\* _score_results: total_score of every valid result, the others untouched
ScoreResults(rs) ==
  [i \in 1..Len(rs) |->
     IF rs[i].ok
     THEN [rs[i] EXCEPT !.total_score =
             TotalScore(NormsOf(rs, i).speed, NormsOf(rs, i).smooth, NormsOf(rs, i).margin)]
     ELSE rs[i]]

Mut_BestIndex_FirstValid(rs) == CHOOSE i \in ValidOf(rs) : \A j \in ValidOf(rs) : i <= j

\* max(valid, key=lambda r: r.total_score): the first of the highest
BestIndex(rs) ==
  CHOOSE i \in ValidOf(rs) :
    \A j \in ValidOf(rs) :
      /\ rs[j].total_score <= rs[i].total_score
      /\ j < i => rs[j].total_score < rs[i].total_score

\* if not valid:
NoValid(rs) == ValidOf(rs) = {}

Mut_NoValidReturn_Success == "0"

\* return 1
NoValidReturn == "1"

\* _score_results(results); no valid candidate returns 1; otherwise the best
\* is selected and the report is written
CalScore ==
  /\ pc = "cal_score"
  /\ LET scored == ScoreResults(results)
     IN  /\ results' = scored
         /\ IF NoValid(scored)
            THEN /\ result' = NoValidReturn
                 /\ pc' = "cal_disconnect"
                 /\ UNCHANGED <<best_result, report>>
            ELSE /\ best_result' = scored[BestIndex(scored)]
                 /\ report' = [written |-> TRUE,
                               sweep_delta_j1_deg |-> sweep_delta,
                               cycles |-> cycles,
                               best_candidate |-> scored[BestIndex(scored)],
                               all_candidates |-> scored]
                 /\ pc' = IF move_to_best THEN "cal_move_best" ELSE "cal_return_home"
                 /\ UNCHANGED result
  /\ CalFrame
  /\ UNCHANGED <<cand, margin, sweep_moves, segment_times, bench, slow, exit_code, drv,
                 motors, trace, rejects, interrupts>>

\* ping_host(args.xarm_ip): a failed ping returns 1; without --execute main
\* returns 0 here
Mut_AfterPing_ExecuteIgnored(ping_ok) ==
  IF ~ping_ok THEN "return_1" ELSE "connect"
AfterPing(ping_ok) ==
  IF ~ping_ok THEN "return_1"
  ELSE IF ~execute THEN "return_0"
  ELSE "connect"

\* precheck_ok holds ping_ok, the first element of what ping_host returned
CalPing ==
  /\ pc = "cal_ping"
  /\ \E ping_ok \in BOOLEAN :
       /\ precheck_ok' = ping_ok
       /\ CASE AfterPing(ping_ok) = "return_1" -> pc' = "done" /\ exit_code' = "1"
            [] AfterPing(ping_ok) = "return_0" -> pc' = "done" /\ exit_code' = "0"
            [] OTHER -> pc' = "cal_connect" /\ UNCHANGED exit_code
  /\ UNCHANGED <<routine, return_home, loops, finger_indices, strike_value, open_value,
                 close_reference, down_fraction, finger_text, center_text, home_text,
                 center_joints, home_joints, skip_precheck, force, loadv,
                 sweep_delta, cycles, execute, move_to_best, joint_limits, flags,
                 iter, ret, ffo, cyc>>
  /\ UNCHANGED <<cand, margin, sweep_moves, segment_times, bench, results, best_result,
                 report, slow, result, drv, motors, trace, rejects, interrupts>>

\* if not arm.connect(): return 1, before the try block
CalConnect ==
  /\ pc = "cal_connect"
  /\ \E ok \in BOOLEAN :
       /\ arm_api' = ok
       /\ trace' = Append(trace, Call("arm.connect", NoPose, -1, -1, NoRegs,
                                      ok, TRUE, "cal_connect"))
       /\ IF ok THEN pc' = "cal_home" /\ UNCHANGED exit_code
          ELSE pc' = "done" /\ exit_code' = "1"
  /\ CalFrame
  /\ UNCHANGED <<cand, margin, sweep_moves, segment_times, bench, results, best_result,
                 report, slow, result, hand_instrument, motors, rejects, interrupts>>

\* the move to the home pose before the candidates: a rejection returns 1
CalHome ==
  /\ pc = "cal_home"
  /\ \E hwok \in HwOutcomes :
       /\ DoArmMove(home_joints, "cal_home", hwok)
       /\ IF XArmMoveJoints(home_joints, hwok)
          THEN pc' = "cal_margin" /\ UNCHANGED result
          ELSE pc' = "cal_disconnect" /\ result' = "1"
  /\ CalFrame
  /\ UNCHANGED <<cand, margin, sweep_moves, segment_times, bench, results, best_result,
                 report, slow, exit_code, interrupts>>

\* if args.move_to_best: the move to the best center pose; a rejection
\* returns 1, otherwise main returns 0
CalMoveBest ==
  /\ pc = "cal_move_best"
  /\ \E hwok \in HwOutcomes :
       /\ DoArmMove(best_result.center_pose_deg, "cal_move_best", hwok)
       /\ result' = IF XArmMoveJoints(best_result.center_pose_deg, hwok) THEN "0" ELSE "1"
  /\ pc' = "cal_disconnect"
  /\ CalFrame
  /\ UNCHANGED <<cand, margin, sweep_moves, segment_times, bench, results, best_result,
                 report, slow, exit_code, interrupts>>

\* else: the move back to the home pose, its result unused; main returns 0
CalReturnHome ==
  /\ pc = "cal_return_home"
  /\ \E hwok \in HwOutcomes : DoArmMove(home_joints, "cal_return_home", hwok)
  /\ result' = "0"
  /\ pc' = "cal_disconnect"
  /\ CalFrame
  /\ UNCHANGED <<cand, margin, sweep_moves, segment_times, bench, results, best_result,
                 report, slow, exit_code, interrupts>>

\* finally: arm.disconnect(); main then returns the value kept, or the
\* KeyboardInterrupt goes on
CalDisconnect ==
  /\ pc = "cal_disconnect"
  /\ trace' = Append(trace, Call("arm.disconnect", NoPose, -1, -1, NoRegs,
                                 TRUE, arm_api, "cleanup"))
  /\ arm_api' = FALSE
  /\ exit_code' = result
  /\ pc' = "done"
  /\ CalFrame
  /\ UNCHANGED <<cand, margin, sweep_moves, segment_times, bench, results, best_result,
                 report, slow, result, hand_instrument, motors, rejects, interrupts>>

\* the positions of main inside its try block
CalTryPcs == {"cal_home", "cal_margin", "cal_sweep", "cal_record", "cal_score",
              "cal_move_best", "cal_return_home"}

\* a KeyboardInterrupt is raised at the current position of the calibration:
\* inside the try block the finally block runs next, anywhere else main is left
CalInterrupt ==
  /\ routine = "calibration"
  /\ pc # "done"
  /\ interrupts < MaxInterrupts
  /\ interrupts' = interrupts + 1
  /\ trace' = Append(trace, Call("KeyboardInterrupt", NoPose, -1, -1, NoRegs,
                                 FALSE, FALSE,
                                 IF pc = "cal_disconnect" THEN "finally" ELSE pc))
  /\ IF pc \in CalTryPcs
     THEN pc' = "cal_disconnect" /\ result' = "raised" /\ UNCHANGED exit_code
     ELSE pc' = "done" /\ exit_code' = "raised" /\ UNCHANGED result
  /\ CalFrame
  /\ UNCHANGED <<cand, margin, sweep_moves, segment_times, bench, results, best_result,
                 report, slow, drv, motors, rejects>>

\* --sweep-delta-j1 values drawn: the default and one whose sweep reaches the
\* first joint's limit
SweepDeltas == {10, -360}

\* --cycles values drawn: argparse takes any integer
CycleValues == {-1, 0, 1}

\* main() of the calibration entered with the default --home-joints text
CalInit ==
  /\ routine = "calibration"
  /\ return_home = FALSE
  /\ loops = 0
  /\ finger_text = <<"3", "2", "1", "0">>
  /\ finger_indices = NotParsed
  /\ open_value = HAND_OPEN
  /\ close_reference = HAND_CLOSE_REF
  /\ down_fraction = DOWN_FRACTION_PCT
  /\ strike_value = NoStrike
  /\ center_text = CenterDefaultText /\ home_text = HomeDefaultText
  /\ center_joints = NotParsed /\ home_joints = NotParsed
  /\ skip_precheck = FALSE /\ force = FALSE /\ precheck_ok = TRUE
  /\ exit_code = "none"
  /\ LoadIdle
  /\ sweep_delta \in SweepDeltas
  /\ cycles \in CycleValues
  /\ execute \in BOOLEAN
  /\ move_to_best \in BOOLEAN
  /\ CalLocalsInit
  /\ pc = "parse_args"
  /\ LocalsInit
  /\ rejects = 0 /\ interrupts = 0

CalNext ==
  \/ MainParse \/ CalPing \/ CalConnect \/ CalHome
  \/ CalMargin \/ CalSweepMove \/ CalRecord \/ CalScore
  \/ CalMoveBest \/ CalReturnHome \/ CalDisconnect
  \/ CalInterrupt

CalSpec == CalInit /\ [][CalNext]_vars

(* ---------------------------------------------------------------------- *)
(* C26                                                                    *)
(* ---------------------------------------------------------------------- *)
\* a sweep benchmark is running or has just returned
InBenchmark == pc \in {"cal_sweep", "cal_record"}
\* the sweep benchmark of the candidate has returned
BenchmarkReturned == pc = "cal_record"

\* n copies of s, none for n <= 0
RECURSIVE Repeat(_, _)
Repeat(s, n) == IF n <= 0 THEN <<>> ELSE s \o Repeat(s, n - 1)

\* center, left, right, center, then n times left, right, center
ExpectedSweep(n) ==
  LET center == CandPose
      left == PoseWithJ1Offset(CandPose, 0 - Abs(sweep_delta))
      right == PoseWithJ1Offset(CandPose, Abs(sweep_delta))
  IN  <<center, left, right, center>> \o Repeat(<<left, right, center>>, n)

\* every move the benchmark issued was accepted
AllSweepMovesAccepted == \A k \in 1..Len(sweep_moves) : sweep_moves[k].ok

\* the moves follow the order of ExpectedSweep(n), the first four untimed and
\* the others timed one by one; with every move accepted the benchmark
\* returns ok after 4 + 3 * n moves with 3 * n segment times, the last move
\* going to the center pose
SweepFollows(n) ==
  InBenchmark
  => /\ Len(sweep_moves) <= Len(ExpectedSweep(n))
     /\ \A k \in 1..Len(sweep_moves) :
          /\ sweep_moves[k].pose = ExpectedSweep(n)[k]
          /\ sweep_moves[k].timed = (k > 4)
     /\ Len(segment_times) =
          Cardinality({k \in 1..Len(sweep_moves) : sweep_moves[k].timed /\ sweep_moves[k].ok})
     /\ (BenchmarkReturned /\ AllSweepMovesAccepted)
        => /\ bench.ok
           /\ Len(sweep_moves) = 4 + 3 * n
           /\ Len(segment_times) = 3 * n
           /\ sweep_moves[Len(sweep_moves)].pose = CandPose

SweepMoveRejected == \E k \in 1..Len(sweep_moves) : ~sweep_moves[k].ok
\* the rejected move was one of the four warm-up moves
RejectedInWarmup == \E k \in 1..Len(sweep_moves) : ~sweep_moves[k].ok /\ ~sweep_moves[k].timed
\* the timed moves of the benchmark that were accepted
TimedAccepted == {k \in 1..Len(sweep_moves) : sweep_moves[k].timed /\ sweep_moves[k].ok}

\* main appends the candidate's result in this step
Records == pc = "cal_record" /\ Len(results') = Len(results) + 1
\* main scores the results in this step
Scores == pc = "cal_score" /\ pc' # "cal_score" /\ interrupts' = interrupts

\* the names of a result list are the catalog's, in its order
ListsCatalog(rs) ==
  /\ Len(rs) = Len(CANDIDATE_NAMES)
  /\ \A i \in 1..Len(rs) : rs[i].name = CANDIDATE_NAMES[i]

\* a rejected move is the last one of its benchmark, which returns at once
C27_NoMoveAfterRejection ==
  InBenchmark
  => /\ \A k \in 1..Len(sweep_moves) : ~sweep_moves[k].ok => k = Len(sweep_moves)
     /\ SweepMoveRejected => BenchmarkReturned /\ ~bench.ok

\* every failed candidate of the list keeps raw speed, raw smoothness and
\* total score 0 and a failure reason, before and after the scoring; a
\* report lists the whole catalog and its best candidate is ok
C27_FailedEntries ==
  /\ \A i \in 1..Len(results) :
       ~results[i].ok
       => /\ results[i].reason \in {"warmup move failed", "sweep move failed"}
          /\ results[i].speed_raw = 0 /\ results[i].smoothness_raw = 0
          /\ results[i].total_score = 0
  /\ report.written
     => /\ ListsCatalog(report.all_candidates)
        /\ report.best_candidate.ok
        /\ report.all_candidates = results

\* the result recorded for a candidate whose benchmark had a move rejected,
\* and the loop going on to the next candidate
C27_RecordStep ==
  (Records /\ SweepMoveRejected)
  => LET r == results'[Len(results')]
     IN  /\ r.name = CandName /\ ~r.ok
         /\ r.reason = (IF RejectedInWarmup THEN "warmup move failed" ELSE "sweep move failed")
         /\ r.segment_times_sec = segment_times
         /\ Len(r.segment_times_sec) = Cardinality(TimedAccepted)
         /\ RejectedInWarmup => r.segment_times_sec = <<>>
         /\ r.speed_raw = 0 /\ r.smoothness_raw = 0 /\ r.total_score = 0
         /\ IF cand < Len(CANDIDATE_CENTERS)
            THEN cand' = cand + 1 /\ pc' = "cal_margin"
            ELSE pc' = "cal_score"

\* with a candidate that completed, the scoring selects an ok candidate as
\* best and writes the report
C27_ScoreStep ==
  (Scores /\ \E i \in 1..Len(results) : results[i].ok)
  => /\ report'.written
     /\ report'.best_candidate.ok
     /\ \E i \in 1..Len(results') : results'[i] = report'.best_candidate

\* C27: a rejected move ends its candidate's benchmark with no further move;
\* the candidate is recorded with ok = false, a failure reason, the segment
\* times of exactly the timed moves accepted before the rejection (none for
\* a rejection in the warm-up), raw speed and smoothness 0 and total score 0;
\* the evaluation goes on with the remaining candidates; a candidate that
\* completes is still selected as best and the report lists every catalog
\* candidate, the failed ones included.
C27_RejectedCandidate ==
  /\ [](C27_NoMoveAfterRejection /\ C27_FailedEntries)
  /\ [][C27_RecordStep /\ C27_ScoreStep]_vars

\* a report with a candidate that failed in the warm-up, one that failed
\* after an accepted timed move, and an ok candidate selected as best
C27_Witness ==
  /\ report.written
  /\ \E i \in 1..Len(report.all_candidates) :
       /\ ~report.all_candidates[i].ok
       /\ report.all_candidates[i].segment_times_sec # <<>>
  /\ \E i \in 1..Len(report.all_candidates) :
       report.all_candidates[i].reason = "warmup move failed"
  /\ report.best_candidate.ok

(* ---------------------------------------------------------------------- *)
(* C28                                                                    *)
(* ---------------------------------------------------------------------- *)
\* every candidate of the catalog was evaluated and none is ok
EveryCandidateFailed ==
  /\ Len(results) = Len(CANDIDATE_CENTERS)
  /\ \A i \in 1..Len(results) : ~results[i].ok

\* main has returned or was left by an exception
MainLeft == pc = "done"

\* no KeyboardInterrupt was raised during the run
NoKeyboardInterrupt == interrupts = 0

\* C28: if the benchmark of every candidate fails and no KeyboardInterrupt
\* arrives, main returns 1, no report is written and no best candidate is
\* selected, and the arm is disconnected, arm.disconnect() being the last
\* driver call.
C28_AllCandidatesFail ==
  /\ EveryCandidateFailed => (~report.written /\ best_result = NoResult)
  /\ (EveryCandidateFailed /\ MainLeft /\ NoKeyboardInterrupt)
     => /\ exit_code = "1"
        /\ ~arm_api
        /\ trace # <<>>
        /\ trace[Len(trace)].op = "arm.disconnect" /\ trace[Len(trace)].hw

\* main has returned after four failed candidates, two of them in the timed
\* part of their benchmark
C28_Witness ==
  /\ EveryCandidateFailed /\ MainLeft /\ NoKeyboardInterrupt
  /\ exit_code = "1"
  /\ \E i \in 1..Len(results) : results[i].reason = "sweep move failed"
  /\ \E i \in 1..Len(results) : results[i].reason = "warmup move failed"

(* ---------------------------------------------------------------------- *)
(* C29                                                                    *)
(* ---------------------------------------------------------------------- *)
\* a report was written and i is its only ok candidate
OnlyOk(i) ==
  /\ report.written
  /\ i \in 1..Len(report.all_candidates)
  /\ ValidOf(report.all_candidates) = {i}

\* the sub-score that normalising a raw value against itself gives: 1.0 for
\* a positive value, 0.0 for the value 0, whose divisor is replaced by 1.0
SelfNormalized(raw) == IF raw > 0 THEN SCALE ELSE 0

\* C29 as stated: the only ok candidate is selected as best, each of its
\* three normalized sub-scores is 1.0 and its total score is 1.0, whatever
\* its raw values, a margin of 0 included.
C29_SingleOkScoresOne ==
  \A i \in 1..Len(CANDIDATE_CENTERS) :
    OnlyOk(i)
    => /\ report.best_candidate = report.all_candidates[i]
       /\ NormsOf(report.all_candidates, i).speed = SCALE
       /\ NormsOf(report.all_candidates, i).smooth = SCALE
       /\ NormsOf(report.all_candidates, i).margin = SCALE
       /\ report.best_candidate.total_score = SCALE

\* C29 amended: the only ok candidate is selected as best whatever its raw
\* values; each normalized sub-score is 1.0 if its raw value is positive and
\* 0.0 if its raw value is 0, and the total score is the weighted sum of the
\* three, which is 1.0 exactly when the three raw values are positive.
C29_SingleOkSelfNormalized ==
  \A i \in 1..Len(CANDIDATE_CENTERS) :
    OnlyOk(i)
    => LET r == report.all_candidates[i]
           norms == NormsOf(report.all_candidates, i)
       IN  /\ report.best_candidate = r
           /\ norms.speed = SelfNormalized(r.speed_raw)
           /\ norms.smooth = SelfNormalized(r.smoothness_raw)
           /\ norms.margin = SelfNormalized(r.margin_raw)
           /\ r.total_score * SCALE =
                500 * SelfNormalized(r.speed_raw) + 350 * SelfNormalized(r.smoothness_raw)
                + 150 * SelfNormalized(r.margin_raw)
           /\ (r.total_score = SCALE)
              <=> (r.speed_raw > 0 /\ r.smoothness_raw > 0 /\ r.margin_raw > 0)

\* the only ok candidate was measured and has a raw margin of 0: it is the
\* best with a total score of 0.85
C29_Witness ==
  \E i \in 1..Len(CANDIDATE_CENTERS) :
    /\ OnlyOk(i)
    /\ report.all_candidates[i].margin_raw = 0
    /\ report.all_candidates[i].speed_raw > 0
    /\ report.best_candidate.total_score = 850

\* the only ok candidate has no segment time and a positive margin
C29_UnmeasuredWitness ==
  \E i \in 1..Len(CANDIDATE_CENTERS) :
    /\ OnlyOk(i)
    /\ report.all_candidates[i].segment_times_sec = <<>>
    /\ report.best_candidate.total_score = 150

\* the only ok candidate has three positive raw values and a total of 1.0
C29_FullScoreWitness ==
  \E i \in 1..Len(CANDIDATE_CENTERS) :
    /\ OnlyOk(i)
    /\ report.best_candidate.total_score = SCALE

(* ---------------------------------------------------------------------- *)
(* C30                                                                    *)
(* ---------------------------------------------------------------------- *)
\* C30: whenever a report is written, its best_candidate is an entry of
\* all_candidates, is ok, and has a total score at least that of every other
\* ok candidate; the total score of every ok candidate lies in [0,1] and
\* that of every candidate that is not ok is 0.
C30_ReportBest ==
  report.written
  => LET all == report.all_candidates
         best == report.best_candidate
     IN  /\ \E i \in 1..Len(all) : all[i] = best
         /\ best.ok
         /\ \A i \in 1..Len(all) :
              /\ all[i].ok => all[i].total_score <= best.total_score
              /\ all[i].ok => all[i].total_score \in 0..SCALE
              /\ ~all[i].ok => all[i].total_score = 0

\* a report whose best candidate is not the first ok one, with ok candidates
\* of different totals and a failed candidate
C30_Witness ==
  /\ report.written
  /\ \E i, j \in 1..Len(report.all_candidates) :
       /\ i < j
       /\ report.all_candidates[i].ok
       /\ report.all_candidates[j] = report.best_candidate
       /\ report.all_candidates[i].total_score < report.best_candidate.total_score
  /\ \E i \in 1..Len(report.all_candidates) : ~report.all_candidates[i].ok

(* ====================================================================== *)
(* main() of the four entry points: parsing, precheck, then the routine    *)
(* on hardware that accepts every command, with no KeyboardInterrupt       *)
(* ====================================================================== *)
EntryPoints == {"startup", "note", "practice", "calibration"}

\* how a pose text differs from the entry point's default: not at all, its
\* last part dropped, a part added, a part that is no number, an empty field
PoseTextVariants == {"default", "five", "seven", "word", "empty_field"}
PoseTextVariant(default, variant) ==
  CASE variant = "default" -> default
    [] variant = "five" -> SubSeq(default, 1, 5)
    [] variant = "seven" -> Append(default, "0")
    [] variant = "word" -> [default EXCEPT ![3] = "x"]
    [] variant = "empty_field" -> <<default[1], "", default[2], default[3], default[4],
                                    default[5], default[6]>>

\* --finger-indices texts: the default, three indices, an index above 5, a
\* word, a repeated thumb motor, a trailing comma
MainFingerTexts ==
  {<<"3", "2", "1", "0">>, <<"3", "2", "1">>, <<"3", "2", "1", "6">>,
   <<"3", "2", "x", "0">>, <<"5", "5", "5", "0">>, <<"3", "2", "1", "0", "">>}

\* the default of --center-joints / --test-arm-joints
DefaultCenterText == IF routine = "startup" THEN TestDefaultText ELSE CenterDefaultText

MainInit ==
  /\ routine \in EntryPoints
  /\ return_home = FALSE
  /\ loops = 1
  /\ finger_text \in (IF routine \in {"note", "practice"} THEN MainFingerTexts
                      ELSE {<<"3", "2", "1", "0">>})
  /\ \E v \in (IF routine = "calibration" THEN {"default"} ELSE PoseTextVariants) :
       center_text = PoseTextVariant(DefaultCenterText, v)
  /\ \E v \in PoseTextVariants : home_text = PoseTextVariant(HomeDefaultText, v)
  /\ finger_indices = NotParsed
  /\ center_joints = NotParsed /\ home_joints = NotParsed
  /\ skip_precheck \in (IF routine = "calibration" THEN {FALSE} ELSE BOOLEAN)
  /\ force \in (IF routine = "calibration" THEN {FALSE} ELSE BOOLEAN)
  /\ precheck_ok = TRUE
  /\ exit_code = "none"
  /\ LoadIdle
  /\ open_value = HAND_OPEN
  /\ close_reference = HAND_CLOSE_REF
  /\ down_fraction = DOWN_FRACTION_PCT
  /\ strike_value = NoStrike
  /\ sweep_delta = 10 /\ cycles = 0
  /\ execute \in (IF routine = "calibration" THEN BOOLEAN ELSE {FALSE})
  /\ move_to_best = FALSE
  /\ CalLocalsInit
  /\ pc = "parse_args"
  /\ LocalsInit
  /\ rejects = MaxRejects /\ interrupts = MaxInterrupts

\* return 0 if ok else 1, after the routine has returned
MainReturn ==
  /\ pc = "done"
  /\ routine # "calibration"
  /\ exit_code = "none"
  /\ result \in {"true", "false"}
  /\ exit_code' = IF result = "true" THEN "0" ELSE "1"
  /\ UNCHANGED <<routine, return_home, loops, finger_indices, strike_value,
                 open_value, close_reference, down_fraction, finger_text,
                 center_text, home_text, center_joints, home_joints,
                 skip_precheck, force, precheck_ok, loadv, calv, pc, result, flags,
                 iter,
                 ret, ffo, cyc, drv, motors, trace, rejects, interrupts>>

MainNext ==
  \/ MainParse \/ MainPrecheck \/ ComputeStrike \/ MainReturn
  \/ ArmConnect \/ ArmStore \/ ArmPosition \/ HandConnect \/ HandStore \/ HandOpen
  \/ Ffo1 \/ Ffo2 \/ Ffo3 \/ FfoReturn
  \/ LoopTop \/ Press \/ Release \/ FinalOpen
  \/ ArmTestPose \/ Cycle \/ CycleReturn \/ ArmReturnHome
  \/ FinHomeFirst \/ FinHandOpen \/ FinHandDisc \/ FinHome \/ FinArmDisc
  \/ CalPing \/ CalConnect \/ CalHome
  \/ CalMargin \/ CalSweepMove \/ CalRecord \/ CalScore
  \/ CalReturnHome \/ CalDisconnect

MainSpec == MainInit /\ [][MainNext]_vars

(* ---------------------------------------------------------------------- *)
(* C22                                                                    *)
(* ---------------------------------------------------------------------- *)
\* the text does not give a pose of 6 joint angles
MalformedPose(text) ==
  \/ Len(StrippedParts(text)) # 6
  \/ \E i \in 1..Len(StrippedParts(text)) : StrippedParts(text)[i] \notin DOMAIN FloatLiterals

\* the text does not give 4 integers in [0,5]
NotFourInRange(text) ==
  \/ Len(StrippedParts(text)) # 4
  \/ \E i \in 1..Len(StrippedParts(text)) :
       \/ StrippedParts(text)[i] \notin DOMAIN IntLiterals
       \/ IntLiterals[StrippedParts(text)[i]] \notin 0..5

\* the text does not give a finger index set: 4 pairwise-distinct motor
\* indices in [0,5], none of them a thumb motor
InvalidFingerList(text) ==
  \/ NotFourInRange(text)
  \/ LET values == IntValues(StrippedParts(text))
     IN  \/ \E i, j \in 1..Len(values) : i # j /\ values[i] = values[j]
         \/ \E i \in 1..Len(values) : values[i] \in ThumbMotors

\* the entry point reads the center (test) pose, the finger order
ReadsCenterPose == routine # "calibration"
ReadsFingerOrder == routine \in {"note", "practice"}

\* no connect() and no hardware command has been attempted, and main, once
\* terminated, has returned an error code
TerminatesBeforeHardware ==
  /\ trace = <<>>
  /\ pc = "done" => exit_code \in {"1", "2"}

\* what the entry points do enforce: a pose text that gives no 6 angles and
\* a finger text that gives no 4 integers in [0,5] end main with code 2
\* before any connect() or hardware command
ParserRejectedBeforeHardware ==
  (\/ MalformedPose(home_text)
   \/ ReadsCenterPose /\ MalformedPose(center_text)
   \/ ReadsFingerOrder /\ NotFourInRange(finger_text))
  => /\ TerminatesBeforeHardware
     /\ pc \in {"parse_args", "done"}
     /\ pc = "done" => exit_code = "2"

\* C22 as stated: in each of the four entry points a malformed configuration
\* (a pose that has not 6 angles, an invalid finger index list) terminates
\* main with an error code before any connect() is attempted and before any
\* hardware command is issued.
C22_MalformedConfigurationStops ==
  (\/ MalformedPose(home_text)
   \/ ReadsCenterPose /\ MalformedPose(center_text)
   \/ ReadsFingerOrder /\ InvalidFingerList(finger_text))
  => TerminatesBeforeHardware

(* ---------------------------------------------------------------------- *)
(* C24                                                                    *)
(* ---------------------------------------------------------------------- *)
\* the precheck has run and failed
PrecheckFailed == ~precheck_ok
\* the routine was entered: its first driver call, arm.connect(), was made
RoutineExecuted == trace # <<>>
\* neither --skip-precheck nor --force was given
DefaultOptions == ~skip_precheck /\ ~force

\* what the three routines' main does: a failed precheck ends main with
\* code 1 before the routine unless --force was given
PrecheckBlocksUnlessForced ==
  (routine # "calibration" /\ PrecheckFailed)
  => IF force THEN pc = "done" => RoutineExecuted
     ELSE pc = "done" /\ exit_code = "1" /\ ~RoutineExecuted

\* C24 as stated: the precheck is advisory; with default options a failed
\* precheck is only reported and the routine still executes.
C24_PrecheckAdvisory ==
  (routine # "calibration" /\ PrecheckFailed /\ DefaultOptions /\ pc = "done")
  => RoutineExecuted

(* ====================================================================== *)
(* main(): --use-calibration-center and the calibration report            *)
(* ====================================================================== *)
\* the center_pose_deg lists drawn: what the calibration writes for each of
\* its candidates (list(center), six numbers), lists of 0 to MaxCenterLen
\* numbers, six numbers with the first or the last element replaced by
\* another JSON value, and six texts holding numbers
Numbers(pose) == [i \in 1..Len(pose) |-> JsonNumber(pose[i])]
OddElements ==
  {JsonNumericText(5), JsonBool(1), JsonText, JsonNull, JsonList}
LongPose == CANDIDATE_CENTERS[3] \o CANDIDATE_CENTERS[3]
CenterLists ==
  {Numbers(CANDIDATE_CENTERS[c]) : c \in 1..Len(CANDIDATE_CENTERS)}
  \cup {Numbers(SubSeq(LongPose, 1, n)) : n \in 0..MaxCenterLen}
  \cup {[Numbers(CANDIDATE_CENTERS[3]) EXCEPT ![k] = e] :
          k \in {1, 6}, e \in OddElements}
  \cup {[i \in 1..6 |-> JsonNumericText(CANDIDATE_CENTERS[3][i])]}

\* the report files drawn: none, one that cannot be read, one that is no
\* JSON, one whose top level is no object, one without best_candidate, with
\* best_candidate null or no object, without center_pose_deg, with a
\* center_pose_deg that is no list, and with each list of CenterLists
ReportInputs ==
  {ReportFile(sh, <<>>) :
     sh \in {"missing", "unreadable", "not_json", "not_object", "no_best",
             "best_null", "best_not_object", "no_center", "center_not_list"}}
  \cup {ReportFile("center_list", c) : c \in CenterLists}

\* --center-joints: the default, another pose, a text that is no pose
LoadCenterTexts ==
  {CenterDefaultText, <<"0", "0", "0", "0", "90", "0">>, <<"0", "x">>}

\* main() of the note test or the practice entered with a report file on
\* disk, with or without --use-calibration-center
LoadInit ==
  /\ routine \in {"note", "practice"}
  /\ return_home = FALSE
  /\ loops = 0
  /\ finger_text = <<"3", "2", "1", "0">>
  /\ center_text \in LoadCenterTexts
  /\ home_text = HomeDefaultText
  /\ finger_indices = NotParsed
  /\ center_joints = NotParsed /\ home_joints = NotParsed
  /\ skip_precheck = TRUE /\ force = FALSE /\ precheck_ok = TRUE
  /\ exit_code = "none"
  /\ use_calibration_center \in BOOLEAN
  /\ report_file \in ReportInputs
  /\ open_value = HAND_OPEN
  /\ close_reference = HAND_CLOSE_REF
  /\ down_fraction = DOWN_FRACTION_PCT
  /\ strike_value = NoStrike
  /\ pc = "parse_args"
  /\ CalIdle
  /\ LocalsInit
  /\ rejects = 0 /\ interrupts = 0

LoadNext == MainParse \/ MainPrecheck \/ ComputeStrike

LoadSpec == LoadInit /\ [][LoadNext]_vars

(* ---------------------------------------------------------------------- *)
(* C31                                                                    *)
(* ---------------------------------------------------------------------- *)
\* main has called _load_center_from_report
LoadCalled == use_calibration_center /\ pc # "parse_args" /\ exit_code # "2"

\* the report's best candidate pose is a list of exactly six numbers
SixNumericValues(file) ==
  /\ file.shape = "center_list"
  /\ Len(file.center) = 6
  /\ \A i \in 1..6 : file.center[i].kind = "number"

\* it is a list of exactly six values float() converts
SixConvertibleValues(file) ==
  /\ file.shape = "center_list"
  /\ Len(file.center) = 6
  /\ \A i \in 1..6 : file.center[i].kind \in {"number", "numeric_text", "bool"}

ReportPose(file) == [i \in 1..Len(file.center) |-> file.center[i].val]

\* the default_center main passes: the parsed --center-joints
DefaultCenter == ParseJointTargets(center_text)

\* what the code does: no exception leaves the load, the pose has six
\* elements, and it is the report's list converted by float() when that
\* list has six convertible values, the parsed --center-joints otherwise
LoadReturnsSixFloats ==
  LoadCalled
  => /\ exit_code # "raised"
     /\ Len(center_joints) = 6
     /\ center_joints = (IF SixConvertibleValues(report_file)
                         THEN ReportPose(report_file) ELSE DefaultCenter)

\* C31: loading the play-center pose from the calibration report never
\* fails; it returns the report's best candidate pose when that is a list of
\* exactly six numeric values and the default pose in every other case
\* (report missing, malformed, or not six numeric values); the pose returned
\* has exactly 6 elements.
C31_LoadFallsBackToDefault ==
  LoadCalled
  => /\ exit_code # "raised"
     /\ Len(center_joints) = 6
     /\ center_joints = (IF SixNumericValues(report_file)
                         THEN ReportPose(report_file) ELSE DefaultCenter)

(* ---------------------------------------------------------------------- *)
(* C32                                                                    *)
(* ---------------------------------------------------------------------- *)
\* main of the calibration has evaluated the ping
PingDone ==
  /\ routine = "calibration"
  /\ pc \notin {"parse_args", "cal_ping"}
  /\ exit_code # "2"
  /\ ~Occurs(LAMBDA e : IsInterrupt(e) /\ e.step \in {"parse_args", "cal_ping"})

\* the calibration has called arm.connect() or asked the arm for a move
ArmConnectedOrMoved ==
  \/ Occurs(LAMBDA e : ~IsInterrupt(e))
  \/ sweep_moves # <<>>

\* C32: the calibration entry point connects to the arm or moves it only if
\* --execute is set and the reachability ping succeeded; without --execute
\* it has returned once the ping is evaluated (1 for a failed ping, 0
\* otherwise), with no connect and no move issued.
C32_HardwareOnlyWithExecute ==
  routine = "calibration"
  => /\ ArmConnectedOrMoved => (execute /\ PingDone /\ precheck_ok)
     /\ (PingDone /\ ~execute)
        => /\ pc = "done"
           /\ exit_code = (IF precheck_ok THEN "0" ELSE "1")
           /\ ~ArmConnectedOrMoved

\* without --execute, main has returned 0 after a successful ping
C32_Witness ==
  /\ PingDone /\ ~execute /\ precheck_ok /\ pc = "done" /\ exit_code = "0"
  /\ ~ArmConnectedOrMoved

\* with --execute and a successful ping, the arm is connected and sweeping
C32_ExecuteWitness ==
  /\ PingDone /\ execute /\ precheck_ok
  /\ Occurs(LAMBDA e : e.op = "arm.connect" /\ e.ok)
  /\ sweep_moves # <<>>

(* ---------------------------------------------------------------------- *)
(* C33                                                                    *)
(* ---------------------------------------------------------------------- *)
\* the commands cycle_all_motors has issued so far
IsCycleCommand(e) == e.step = "cycle" /\ ~IsInterrupt(e)
CycleCommands == SelectSeq(trace, IsCycleCommand)

\* the k-th command of cycle_all_motors: motor (k - 1) \div 3, at the open
\* value, the close value, the open value in turn, the five other registers
\* holding the no-change sentinel 65535
CycleInOrder ==
  \A k \in 1..Len(CycleCommands) :
    LET e == CycleCommands[k]
        idx == (k - 1) \div 3
        v == CycleValue(((k - 1) % 3) + 1)
    IN  /\ k <= 3 * MOTOR_COUNT
        /\ e.op = "hand.move_single_motor" /\ e.motor = idx /\ e.val = v
        /\ e.regs[idx + 1] = v
        /\ \A i \in 1..MOTOR_COUNT : i # idx + 1 => e.regs[i] = NO_ACTION_VALUE

\* a rejected cycle command makes the startup routine return failure
CycleRejectionFails ==
  (Terminated /\ NoInterrupt /\ \E k \in 1..Len(CycleCommands) : ~CycleCommands[k].ok)
  => result = "false"

\* no cycle command follows a rejected one
CycleStopsAtRejection ==
  \A k \in 1..Len(CycleCommands) : ~CycleCommands[k].ok => k = Len(CycleCommands)

\* what the code does: the choreography in order with the sentinel, and
\* failure returned after a rejection
CycleChoreography ==
  routine = "startup" => (CycleInOrder /\ CycleRejectionFails)

\* C33: cycle_all_motors commands each of the 6 motors in ascending index
\* order through open, close, open, each command leaving the other five
\* motors unchanged through the sentinel 65535; after the first rejected
\* command no further cycle command is issued and the startup routine
\* returns failure.
C33_CycleStopsAtFirstRejection ==
  routine = "startup"
  => (CycleInOrder /\ CycleStopsAtRejection /\ CycleRejectionFails)

\* cycle_all_motors has issued all 18 commands, every one accepted
CycleCompleteWitness ==
  /\ routine = "startup" /\ Len(CycleCommands) = 3 * MOTOR_COUNT
  /\ \A k \in 1..Len(CycleCommands) : CycleCommands[k].ok

(* ---------------------------------------------------------------------- *)
(* C34                                                                    *)
(* ---------------------------------------------------------------------- *)
\* the initial _force_full_open returned True: its second set_all_motors,
\* the last of its commands, was accepted
InitialOpenAll(e) == e.op = "hand.set_all_motors" /\ e.step = "open"
InitialOpenCompleted ==
  \E i, j \in Idx :
    /\ i < j
    /\ InitialOpenAll(trace[i]) /\ trace[i].ok
    /\ InitialOpenAll(trace[j]) /\ trace[j].ok

\* both connects succeeded and the practice loop was reached
LoopWasEntered ==
  /\ Occurs(ArmConnectOk) /\ Occurs(HandConnectOk)
  /\ InitialOpenCompleted

\* a KeyboardInterrupt arrived in the try block before the loop was reached
InterruptBeforeLoop ==
  \E i \in Idx :
    /\ IsInterrupt(trace[i])
    /\ trace[i].step \notin LoopPcs \cup {"finally", "except"}

\* what the code does: success is returned after the loop was entered or
\* after a KeyboardInterrupt anywhere in the try block
SuccessAfterLoopOrInterrupt ==
  (routine = "practice" /\ result = "true")
  => (LoopWasEntered \/ InterruptBeforeLoop)

\* C34: run_continuous_practice returns success only if both actuators
\* connected and the initial fully-open sequence completed, that is only if
\* the practice loop was entered, wherever a KeyboardInterrupt arrives
\* (before or during arm.connect, the play-center move, hand.connect).
C34_SuccessOnlyAfterLoopEntered ==
  (routine = "practice" /\ result = "true") => LoopWasEntered

(* ---------------------------------------------------------------------- *)
(* C35                                                                    *)
(* ---------------------------------------------------------------------- *)
\* a KeyboardInterrupt arrived while the finally block was executing, or
\* between a connect() returning and arm_ok / hand_ok being assigned
InterruptInCleanup == Occurs(LAMBDA e : IsInterrupt(e) /\ e.step = "finally")
InterruptBeforeStore ==
  Occurs(LAMBDA e : IsInterrupt(e) /\ e.step \in {"arm_store", "hand_store"})

\* every actuator that connected has been disconnected after its connect
ConnectedAreDisconnected ==
  /\ \A i \in Idx : ArmConnectOk(trace[i])
        => \E j \in Idx : j > i /\ ArmDisconnect(trace[j])
  /\ \A i \in Idx : HandConnectOk(trace[i])
        => \E j \in Idx : j > i /\ HandDisconnect(trace[j])

\* what the code does: the disconnects are called unless a KeyboardInterrupt
\* arrived inside the finally block or before the connect result was stored
DisconnectUnlessInterruptedLate ==
  (routine = "practice" /\ Terminated /\ ~InterruptInCleanup /\ ~InterruptBeforeStore)
  => ConnectedAreDisconnected

\* C35: once an actuator has connected in run_continuous_practice, its
\* disconnect has been called by the time control leaves the routine, also
\* when a KeyboardInterrupt arrives while the cleanup block is executing or
\* between a successful connect and the recording of its result.
C35_DisconnectDespiteInterrupt ==
  (routine = "practice" /\ Terminated) => ConnectedAreDisconnected

(* ---------------------------------------------------------------------- *)
(* C36                                                                    *)
(* ---------------------------------------------------------------------- *)
\* the candidate result has timing metrics: a non-empty segment-time list,
\* finite mean and standard deviation, strictly positive raw speed
HasTimingMetrics(r) ==
  /\ r.segment_times_sec # <<>>
  /\ r.mean_segment_time_sec < INF
  /\ r.std_segment_time_sec < INF
  /\ r.speed_raw > 0

\* every candidate recorded ok has timing metrics, and so has the best
\* candidate of a written report
OkCandidatesMeasured ==
  /\ \A i \in 1..Len(results) : results[i].ok => HasTimingMetrics(results[i])
  /\ report.written => HasTimingMetrics(report.best_candidate)

\* what the code does: with --cycles of at least 1 every ok candidate is
\* measured
OkCandidatesMeasuredWithCycles ==
  (routine = "calibration" /\ cycles >= 1) => OkCandidatesMeasured

\* C36: for every --cycles value, 0 and negative values included, every
\* candidate recorded with ok = true has a non-empty segment-time list,
\* finite mean and standard deviation and strictly positive raw speed, and
\* so the best candidate written to the report has finite timing metrics.
C36_OkCandidatesHaveFiniteMetrics ==
  routine = "calibration" => OkCandidatesMeasured

\* a report whose best candidate was measured over three segments
OkCandidatesMeasuredWitness ==
  /\ routine = "calibration" /\ cycles = 1 /\ report.written
  /\ Len(report.best_candidate.segment_times_sec) = 3
  /\ HasTimingMetrics(report.best_candidate)

(* ---------------------------------------------------------------------- *)
(* C37                                                                    *)
(* ---------------------------------------------------------------------- *)
\* main of the calibration, run with --execute, has been left
CalibrationLeft == routine = "calibration" /\ execute /\ pc = "done"

\* the requested move to the best pose was rejected
MoveToBestRejected ==
  Occurs(LAMBDA e : IsArmMove(e) /\ e.step = "cal_move_best" /\ ~e.ok)

\* what the code does: a run with --execute that returns 0 has written a
\* report naming a best candidate; a run that has written a report returns
\* 0 unless the move to the best pose was rejected or a KeyboardInterrupt
\* arrived
ReportWrittenBeforeMoveToBest ==
  CalibrationLeft
  => /\ exit_code = "0" => (report.written /\ best_result # NoResult)
     /\ (report.written /\ exit_code # "0")
        => (MoveToBestRejected \/ ~NoKeyboardInterrupt)

\* C37: a calibration run exits with success if and only if it wrote a
\* report containing a best_candidate; no run that ends in failure, one
\* whose requested move to the best pose is rejected included, has written
\* a report.
C37_ReportIffSuccess ==
  (CalibrationLeft /\ NoKeyboardInterrupt)
  => (exit_code = "0" <=> report.written)

\* a run that has written its report and returned 0
ReportWrittenWitness ==
  CalibrationLeft /\ NoKeyboardInterrupt /\ exit_code = "0" /\ report.written

====
